---- MODULE Spec2Model ----
(***************************************************************************)
(* A model of the event bus of SaltyIRS.js (class EventBus and its two     *)
(* synchronisation adapters, EventBusStorageSync and EventBusCoherentSync) *)
(* and of its observables.                                                 *)
(*                                                                         *)
(* The code of one bus is modelled by pure operators over a bus record     *)
(* (Pub, On, Off, ...).  The specifications:                               *)
(*   Spec      one bus, its handler lists and its cache, driven by on, off,*)
(*             onAll, offAll and pub calls;                                  *)
(*   SpecDispatch  one bus whose handlers subscribe and unsubscribe during *)
(*             a dispatch;                                                 *)
(*   SpecSync  several bus instances in separate views that exchange       *)
(*             synchronisation messages;                                   *)
(*   SpecSubject  the observables (Subject, MappedSubject, ComputedSubject)*)
(*             and their subscribers;                                      *)
(*   SpecConsumer  a Consumer filter chain subscribed to a topic;          *)
(*   SpecWire  two views whose storage adapters carry payloads through the *)
(*             wire format of EventBusStorageSync;                         *)
(*   SpecApply  a Subject holding an object, changed by apply;             *)
(*   SpecHandle  Consumer objects whose handle and off are called by       *)
(*             several terminal handlers;                                  *)
(*   SpecPublisher  a SimVarPublisher started, stopped and updated;        *)
(*   SpecWait, SpecWaitFair  one call of Wait.awaitCondition, its frames,  *)
(*             its interval timer and the clock;                           *)
(*   SpecArinc  a withArinc429Precision consumer and its words;            *)
(*   SpecIRS, SpecIRSOn  a SaltyIRS object and its update calls;           *)
(*   SpecReentrant  one bus with a handler that publishes while pub is     *)
(*             dispatching;                                                *)
(*   SpecUncached  one bus with cached and uncached publishes and the      *)
(*             resync requests it receives.                                *)
(***************************************************************************)
EXTENDS Integers, Sequences, FiniteSets, TLC

(***************************************************************************)
(* Bounds of the model.                                                    *)
(***************************************************************************)
\* largest number of handlers (direct and wildcard together) registered on
\* the bus of Spec
MaxHandlers == 3
\* largest number of synced pub calls made on a channel-relay bus in Spec
MaxEvtNum == 1
\* number of local pub calls made in SpecSync
MaxLocalPubs == 2
\* number of messages the network delivers a second time in SpecSync
MaxRedeliver == 1
\* number of messages received by the storage adapters in SpecSync
MaxStorageRecv == 3

\* largest number of subscribers the callers add to the observables
MaxSubs == 2

\* number of publishes a Consumer chain receives
MaxPubs == 3
\* the time (ms) up to which the clock of the Consumer chain runs
MaxTime == 250
\* calls of handle made on the consumers of SpecHandle
MaxHandleCalls == 2
\* publishes made in SpecHandle
MaxHandlePubs == 2
\* the last millisecond of the clock of SpecWait
MaxClock == 6

(***************************************************************************)
(* Values.                                                                 *)
(***************************************************************************)
\* the payload values the callers publish
DataVals == {"d1", "d2"}
\* the JavaScript value undefined
Undefined == "undefined"
\* the value JSON.parse('{}') yields
EmptyObject == "emptyObject"
\* the ordinary topics
Topics == {"x", "y"}
\* the reserved topic of the resync protocol and its payload
EB_TOPIC == "event_bus"
RESYNC_REQUEST == "resync_request"
AllTopics == Topics \cup {EB_TOPIC}

\* the handler functions of the callers; the closure the constructor
\* registers on the reserved topic is ResyncHandler
DirectHandlers == {"H1", "H2"}
WildcardHandlers == {"W1", "W2"}
ResyncHandler == "resyncHandler"
\* handlers that change the subscriptions of topic "x" when they are called:
\* OffSelf unsubscribes itself, OffH1 unsubscribes H1, OnH3 subscribes H3
OffSelf == "OffSelf"
OffH1 == "OffH1"
OnH3 == "OnH3"
\* a handler of topic "x" that publishes "d2" on "x" when it is called with
\* "d1"
PubD2 == "PubD2"

\* H2 and W1 are handlers that throw when they are called with "d2";
\* the other handlers never throw
HandlerThrows(h, data) == h \in {"H2", "W1"} /\ data = "d2"

(***************************************************************************)
(* The event cache: a JavaScript Map, i.e. entries in insertion order.     *)
(***************************************************************************)
CacheHas(cache, topic) == \E i \in 1..Len(cache) : cache[i].topic = topic

CacheIndex(cache, topic) == CHOOSE i \in 1..Len(cache) : cache[i].topic = topic

CacheGet(cache, topic) == cache[CacheIndex(cache, topic)]

\* Map.set: an existing key keeps its position, a new key is appended
CacheSet(cache, topic, data, synced) ==
    LET entry == [topic |-> topic, data |-> data, synced |-> synced]
    IN  IF CacheHas(cache, topic)
        THEN [cache EXCEPT ![CacheIndex(cache, topic)] = entry]
        ELSE Append(cache, entry)

(***************************************************************************)
(* The state of a call in progress: the bus, the invocations made so far   *)
(* (log), the messages handed to the view listener or the storage (out),   *)
(* and whether an exception is propagating (threw).                        *)
(***************************************************************************)
Call(bus) == [bus |-> bus, log |-> <<>>, out |-> <<>>, threw |-> FALSE]

NoValue == "-"

LogEvent(ev, h, topic, data) == [ev |-> ev, h |-> h, topic |-> topic, data |-> data]

(***************************************************************************)
(* EventBusStorageSync                                                     *)
(***************************************************************************)
EMPTY_DATA == <<"raw", "{}">>
EB_KEY == "eb.evt"

\* payloads whose JSON text has a comma: the string "a,b" and the array
\* [1,2]
CommaString == "a,b"
ArrayValue == "[1,2]"
HasComma(data) == data \in {CommaString, ArrayValue}

\* A string is modelled by the list of its comma-free segments, which is
\* what split(',') returns.  JSON.stringify of a payload without a comma
\* is one segment; the text of "a,b" and of [1,2] is two segments, neither
\* of which is a JSON text.
JSONstringify(data) ==
    IF HasComma(data)
    THEN << <<"json-head", data>>, <<"json-tail", data>> >>
    ELSE << <<"json", data>> >>

\* the newValue of the storage event of removeItem
Null == <<>>

\* JSON.parse throws a SyntaxError on a text that is not a JSON text
SyntaxError == "SyntaxError"

JSONparse(segment) ==
    CASE segment = EMPTY_DATA -> EmptyObject
      [] segment[1] = "json" -> segment[2]
      [] OTHER -> SyntaxError

\* sendEvent: setItem(EB_KEY, `${topic},${json}`); removeItem(EB_KEY).
\* out takes the storage event of setItem; the one of removeItem has the
\* newValue null, which receiveEvent ignores
StorageSendEvent(st, topic, data) ==
    LET text == << <<"raw", topic>> >> \o
                (IF data # Undefined THEN JSONstringify(data) ELSE <<EMPTY_DATA>>)
    IN  [st EXCEPT !.out = Append(@, [key |-> EB_KEY, newValue |-> text])]

(***************************************************************************)
(* EventBusCoherentSync                                                    *)
(***************************************************************************)
\* sendEvent: triggerToAllSubscribers(EB_KEY, {..., evtNum: this.evtNum++})
CoherentSendEvent(st, topic, data, isCached) ==
    [st EXCEPT !.out = Append(@, [topic |-> topic, data |-> data,
                                   isCached |-> isCached,
                                   busId |-> st.bus.busId,
                                   evtNum |-> st.bus.evtNum]),
               !.bus.evtNum = @ + 1]

(***************************************************************************)
(* EventBus                                                                *)
(***************************************************************************)
SyncEvent(st, topic, data, isCached) ==
    IF st.bus.useStorageSync
    THEN StorageSendEvent(st, topic, data)
    ELSE CoherentSendEvent(st, topic, data, isCached)

\* resyncEvents: every cached entry that is flagged synced is sent again,
\* in the order of the Map
RECURSIVE ResyncFrom(_, _)
ResyncFrom(st, i) ==
    IF i > Len(st.bus.eventCache) THEN st
    ELSE LET event == st.bus.eventCache[i]
         IN  ResyncFrom(IF event.synced
                        THEN SyncEvent([st EXCEPT !.log = Append(@,
                                 LogEvent("resync", "-", event.topic, event.data))],
                                 event.topic, event.data, TRUE)
                        ELSE st,
                        i + 1)

ResyncEvents(st) == ResyncFrom(st, 1)

\* the body of a handler, defined after on and off, which handlers call
RECURSIVE HandlerBody(_, _, _)

\* CacheStore that caches every event
CacheStoreAlways(cache, topic, data, sync, isCached) ==
    CacheSet(cache, topic, data, sync)

\* CacheStore with the slip "only a synced event is cached"
CacheStoreSyncedOnly(cache, topic, data, sync, isCached) ==
    IF isCached /\ sync THEN CacheSet(cache, topic, data, sync) ELSE cache

\* pub, first statement: if (isCached) this._eventCache.set(topic, {data, synced: sync})
CacheStore(cache, topic, data, sync, isCached) ==
    IF isCached THEN CacheSet(cache, topic, data, sync) ELSE cache

\* one round of the loop over the handlers of the topic: handlers[i](data)
\* inside try/catch.  handlers is the array of the map, so a handler that
\* was removed by an earlier round is gone from it: handlers[i] beyond its
\* length is undefined, and calling it is a TypeError, which is caught
DirectStep(st, topic, data, i) ==
    LET list == st.bus.topicHandlersMap[topic].list
    IN  IF i > Len(list)
        THEN [st EXCEPT !.log = Append(@, LogEvent("caught", Undefined, topic, data))]
        ELSE LET h   == list[i]
                 st1 == [st EXCEPT !.log = Append(@, LogEvent("direct", h, topic, data))]
                 st2 == HandlerBody(st1, h, data)
             IN  IF HandlerThrows(h, data) \/ st2.threw
                 THEN [st2 EXCEPT !.log = Append(@, LogEvent("caught", h, topic, data)),
                                  !.threw = FALSE]
                 ELSE st2

RECURSIVE DirectLoop(_, _, _, _, _)
DirectLoop(st, topic, data, i, len) ==
    IF i > len THEN st
    ELSE DirectLoop(DirectStep(st, topic, data, i), topic, data, i + 1, len)

\* one round of the loop over the wildcard handlers: no try/catch
WildcardStep(st, topic, data, i) ==
    LET h == st.bus.wildcardHandlers[i]
    IN  [st EXCEPT !.log = Append(@, LogEvent("wildcard", h, topic, data)),
                   !.threw = HandlerThrows(h, data)]

RECURSIVE WildcardLoop(_, _, _, _, _)
WildcardLoop(st, topic, data, i, wcLen) ==
    IF i > wcLen \/ st.threw THEN st
    ELSE WildcardLoop(WildcardStep(st, topic, data, i), topic, data, i + 1, wcLen)

\* the sync forward of pub: if (sync) this.syncEvent(topic, data, isCached)
PubSync(st, topic, data, sync, isCached) ==
    IF sync
    THEN SyncEvent([st EXCEPT !.log = Append(@, LogEvent("sync", "-", topic, data))],
                   topic, data, isCached)
    ELSE st

\* pub(topic, data, sync, isCached), continuing the call st
PubIn(st, topic, data, sync, isCached) ==
    LET st1 == [st EXCEPT !.bus.eventCache = CacheStore(@, topic, data, sync, isCached),
                          !.log = Append(@, LogEvent("pub", "-", topic, data))]
        hs  == st1.bus.topicHandlersMap[topic]
        st2 == IF hs.defined
               THEN DirectLoop(st1, topic, data, 1, Len(hs.list))
               ELSE st1
        st3 == PubSync(st2, topic, data, sync, isCached)
    IN  WildcardLoop(st3, topic, data, 1, Len(st3.bus.wildcardHandlers))

Pub(bus, topic, data, sync, isCached) == PubIn(Call(bus), topic, data, sync, isCached)

\* EventBusStorageSync.receiveEvent(e): recvEventCb is pub, called with
\* (val[0], JSON.parse(val[1]), true); an exception of JSON.parse leaves the
\* listener before pub is called
StorageReceiveEvent(st, e) ==
    IF e.key = EB_KEY /\ e.newValue # Null
    THEN LET val  == e.newValue
             data == IF Len(val) > 1 THEN JSONparse(val[2]) ELSE Undefined
         IN  IF data = SyntaxError
             THEN [st EXCEPT !.threw = TRUE]
             ELSE PubIn(st, val[1][2], data, TRUE, TRUE)
    ELSE st

\* EventBusCoherentSync.receiveEvent(e): recvEventCb is pub, called with
\* (topic, data, undefined, isCached), so that sync takes its default false
\* CoherentReceiveEvent without the test of the bus id
CoherentReceiveNoSelfCheck(st, e) ==
    IF st.bus.lastEventSynced # e.evtNum
    THEN PubIn([st EXCEPT !.bus.lastEventSynced = e.evtNum],
               e.topic, e.data, FALSE, e.isCached)
    ELSE st

\* CoherentReceiveEvent without the test of the sequence number
CoherentReceiveNoDedup(st, e) ==
    IF e.busId = st.bus.busId
    THEN st
    ELSE PubIn([st EXCEPT !.bus.lastEventSynced = e.evtNum],
               e.topic, e.data, FALSE, e.isCached)

CoherentReceiveEvent(st, e) ==
    IF e.busId = st.bus.busId
    THEN st
    ELSE IF st.bus.lastEventSynced # e.evtNum
         THEN PubIn([st EXCEPT !.bus.lastEventSynced = e.evtNum],
                    e.topic, e.data, FALSE, e.isCached)
         ELSE st

ReceiveEvent(bus, e) ==
    IF bus.useStorageSync
    THEN StorageReceiveEvent(Call(bus), e)
    ELSE CoherentReceiveEvent(Call(bus), e)


\* on(topic, handler), continuing the call st: the handler is pushed on the
\* list of the topic (a list is created when the topic has none), then the
\* cached value of the topic, if there is one, is replayed to the handler
OnRegister(map, topic, handler) ==
    IF map[topic].defined
    THEN [map EXCEPT ![topic].list = Append(@, handler)]
    ELSE [map EXCEPT ![topic] = [defined |-> TRUE, list |-> <<handler>>]]

\* OnReplay without the test for a cached entry
OnReplayUnchecked(st, topic, handler) ==
    LET lastState == IF CacheHas(st.bus.eventCache, topic)
                     THEN CacheGet(st.bus.eventCache, topic).data
                     ELSE Undefined
        st1 == [st EXCEPT !.log = Append(@, LogEvent("replay", handler, topic, lastState))]
        st2 == HandlerBody(st1, handler, lastState)
    IN  [st2 EXCEPT !.threw = HandlerThrows(handler, lastState)]

OnReplay(st, topic, handler) ==
    IF CacheHas(st.bus.eventCache, topic)
    THEN LET lastState == CacheGet(st.bus.eventCache, topic).data
             st1 == [st EXCEPT !.log = Append(@, LogEvent("replay", handler, topic, lastState))]
             st2 == HandlerBody(st1, handler, lastState)
         IN  [st2 EXCEPT !.threw = HandlerThrows(handler, lastState)]
    ELSE st

OnIn(st, topic, handler) ==
    OnReplay([st EXCEPT !.bus.topicHandlersMap = OnRegister(@, topic, handler)],
             topic, handler)

On(bus, topic, handler) == OnIn(Call(bus), topic, handler)

\* Array.prototype.indexOf: the first index (from 0) of the element, or -1
IndexOf(list, e) ==
    IF \E i \in 1..Len(list) : list[i] = e
    THEN (CHOOSE i \in 1..Len(list) : list[i] = e /\ \A j \in 1..(i - 1) : list[j] # e) - 1
    ELSE -1

\* x >>> 0 for x >= -1: -1 becomes 4294967295, which is larger than every
\* array length; it is held at the largest integer the checker has
ToUint32(x) == IF x < 0 THEN 2147483647 ELSE x

\* Array.prototype.splice(start, 1) for start >= 0 (from 0)
Splice1(list, start) ==
    IF start < Len(list)
    THEN SubSeq(list, 1, start) \o SubSeq(list, start + 2, Len(list))
    ELSE list

\* off with the index handed to splice as a signed number: splice(-1, 1)
\* removes the last element
OffSigned(bus, topic, handler) ==
    LET handlers == bus.topicHandlersMap[topic]
        index == IndexOf(handlers.list, handler)
    IN  IF handlers.defined
        THEN [bus EXCEPT !.topicHandlersMap[topic].list =
                  IF index < 0 THEN SubSeq(@, 1, Len(@) - 1) ELSE Splice1(@, index)]
        ELSE bus

\* off(topic, handler): handlers.splice(handlers.indexOf(handler) >>> 0, 1)
Off(bus, topic, handler) ==
    LET handlers == bus.topicHandlersMap[topic]
    IN  IF handlers.defined
        THEN [bus EXCEPT !.topicHandlersMap[topic].list =
                  Splice1(@, ToUint32(IndexOf(handlers.list, handler)))]
        ELSE bus

\* the body of a handler: the closure of the constructor answers a
\* resync_request; OffSelf, OffH1 and OnH3 call off and on of the bus for
\* topic "x"; the other handlers of the callers only take the value
HandlerBody(st, h, data) ==
    CASE h = ResyncHandler ->
           IF data = RESYNC_REQUEST THEN ResyncEvents(st) ELSE st
      [] h = OffSelf ->
           [st EXCEPT !.bus = Off(@, "x", OffSelf),
                      !.log = Append(@, LogEvent("off", OffSelf, "x", NoValue))]
      [] h = OffH1 ->
           [st EXCEPT !.bus = Off(@, "x", "H1"),
                      !.log = Append(@, LogEvent("off", "H1", "x", NoValue))]
      [] h = OnH3 ->
           OnIn([st EXCEPT !.log = Append(@, LogEvent("on", "H3", "x", NoValue))],
                "x", "H3")
      [] h = PubD2 ->
           IF data = "d1" THEN PubIn(st, "x", "d2", FALSE, TRUE) ELSE st
      [] OTHER -> st

\* onAll(handler)
OnAll(bus, handler) == [bus EXCEPT !.wildcardHandlers = Append(@, handler)]

\* offAll(handler)
OffAll(bus, handler) ==
    LET handlerIndex == IndexOf(bus.wildcardHandlers, handler)
    IN  IF handlerIndex > -1
        THEN [bus EXCEPT !.wildcardHandlers = Splice1(@, ToUint32(handlerIndex))]
        ELSE bus

\* the constructor: empty maps, the adapter (evtNum 0, lastEventSynced -1),
\* the resync_request sent uncached, then the closure subscribed to the
\* reserved topic
NewBus(busId, useStorageSync) ==
    LET fresh == [topicHandlersMap |-> [t \in AllTopics |-> [defined |-> FALSE, list |-> <<>>]],
                  wildcardHandlers |-> <<>>,
                  eventCache       |-> <<>>,
                  busId            |-> busId,
                  useStorageSync   |-> useStorageSync,
                  evtNum           |-> 0,
                  lastEventSynced  |-> -1]
    IN  OnIn(SyncEvent(Call(fresh), EB_TOPIC, RESYNC_REQUEST, FALSE), EB_TOPIC, ResyncHandler)

(***************************************************************************)
(* Spec: one bus and the calls made on it.  lastCall records the most      *)
(* recent call: its arguments, the bus before it (pre), the invocations it *)
(* made (log), the messages it handed to the adapter's transport (out) and *)
(* whether it threw.  The variables of SpecSync keep their initial value.  *)
(***************************************************************************)
VARIABLES bus, lastCall, views, net, hist, objs, lastSet, cons, lastPub,
          consumers, lastStep, publisher, waiter, irs

busVars == <<bus, lastCall>>
syncVars == <<views, net, hist>>
subjVars == <<objs, lastSet>>
consVars == <<cons, lastPub>>
handleVars == <<consumers, lastStep>>
vars == <<bus, lastCall, views, net, hist, objs, lastSet, cons, lastPub,
          consumers, lastStep, publisher, waiter, irs>>

\* the variables a specification of the bus, or of the views, leaves alone
exceptBus == <<syncVars, subjVars, consVars, handleVars, publisher, waiter, irs>>
exceptSync == <<busVars, subjVars, consVars, handleVars, publisher, waiter, irs>>
exceptSubj == <<busVars, syncVars, consVars, handleVars, publisher, waiter, irs>>
exceptCons == <<busVars, syncVars, subjVars, handleVars, publisher, waiter, irs>>
exceptHandle == <<syncVars, subjVars, consVars, publisher, waiter, irs>>
exceptPublisher == <<syncVars, subjVars, consVars, handleVars, waiter, irs>>
exceptWaiter == <<busVars, syncVars, subjVars, consVars, handleVars, publisher, irs>>
exceptIrs == <<busVars, syncVars, subjVars, consVars, handleVars, publisher, waiter>>

\* the variables of SpecSubject while another specification runs
SubjIdle ==
    /\ objs = <<>>
    /\ lastSet = <<>>

\* the variables of SpecConsumer while another specification runs
ConsIdle ==
    /\ cons = <<>>
    /\ lastPub = <<>>

\* the variables of SpecHandle while another specification runs
HandleIdle ==
    /\ consumers = <<>>
    /\ lastStep = <<>>

\* the variable of SpecPublisher while another specification runs
PublisherIdle == publisher = <<>>

\* the variable of SpecWait while another specification runs
WaiterIdle == waiter = <<>>

\* the variable of SpecIRS while another specification runs
IrsIdle == irs = <<>>

NoArg == "-"

CallRecord(op, topic, h, data, sync, isCached, pre, st) ==
    [op |-> op, topic |-> topic, h |-> h, data |-> data, sync |-> sync,
     isCached |-> isCached, pre |-> pre, log |-> st.log, out |-> st.out,
     threw |-> st.threw]

\* the topic the callers subscribe to; the reserved topic has the closure
\* of the constructor as its handler, "y" has none
HandlerTopics == {"x"}

\* the values published on a topic
Payloads(topic) == IF topic = "x" THEN DataVals ELSE {"d1"}

NumHandlers(b) == Len(b.topicHandlersMap["x"].list) + Len(b.wildcardHandlers)

SyncInit ==
    /\ views = <<>>
    /\ net = <<>>
    /\ hist = <<>>

BusInit ==
    /\ \E s \in BOOLEAN :
         LET st == NewBus(1, s)
         IN  /\ bus = st.bus
             /\ lastCall = CallRecord("new", NoArg, NoArg, NoArg, FALSE, FALSE, st.bus, st)

Init == BusInit /\ SyncInit /\ SubjIdle /\ ConsIdle /\ HandleIdle /\ PublisherIdle
        /\ WaiterIdle
        /\ IrsIdle

OnCall(topic, h) ==
    /\ NumHandlers(bus) < MaxHandlers
    /\ LET st == On(bus, topic, h)
       IN  /\ bus' = st.bus
           /\ lastCall' = CallRecord("on", topic, h, NoArg, FALSE, FALSE, bus, st)
    /\ UNCHANGED exceptBus

OffCall(topic, h) ==
    /\ bus' = Off(bus, topic, h)
    /\ lastCall' = CallRecord("off", topic, h, NoArg, FALSE, FALSE, bus, Call(bus'))
    /\ UNCHANGED exceptBus

OnAllCall(h) ==
    /\ NumHandlers(bus) < MaxHandlers
    /\ bus' = OnAll(bus, h)
    /\ lastCall' = CallRecord("onAll", NoArg, h, NoArg, FALSE, FALSE, bus, Call(bus'))
    /\ UNCHANGED exceptBus

OffAllCall(h) ==
    /\ bus' = OffAll(bus, h)
    /\ lastCall' = CallRecord("offAll", NoArg, h, NoArg, FALSE, FALSE, bus, Call(bus'))
    /\ UNCHANGED exceptBus

PubCall(topic, data, sync, isCached) ==
    /\ sync => bus.evtNum <= MaxEvtNum
    /\ LET st == Pub(bus, topic, data, sync, isCached)
       IN  /\ bus' = st.bus
           /\ lastCall' = CallRecord("pub", topic, NoArg, data, sync, isCached, bus, st)
    /\ UNCHANGED exceptBus

Next ==
    \/ \E topic \in HandlerTopics, h \in DirectHandlers : OnCall(topic, h)
    \/ \E topic \in HandlerTopics, h \in DirectHandlers : OffCall(topic, h)
    \/ \E h \in WildcardHandlers : OnAllCall(h)
    \/ \E h \in WildcardHandlers : OffAllCall(h)
    \/ \E topic \in Topics, sync \in BOOLEAN, isCached \in BOOLEAN :
          \E data \in Payloads(topic) : PubCall(topic, data, sync, isCached)

Spec == Init /\ [][Next]_vars

(***************************************************************************)
(* SpecDispatch: one bus whose handlers of topic "x" call on and off of    *)
(* the bus while pub is dispatching to them.                               *)
(***************************************************************************)
DispatchHandlers == {"H1", OffSelf, OffH1, OnH3}

\* the number of times e occurs in a list
RECURSIVE Occurrences(_, _)
Occurrences(list, e) ==
    IF list = <<>> THEN 0
    ELSE (IF Head(list) = e THEN 1 ELSE 0) + Occurrences(Tail(list), e)

DispatchInit ==
    /\ LET st == NewBus(1, FALSE)
       IN  /\ bus = st.bus
           /\ lastCall = CallRecord("new", NoArg, NoArg, NoArg, FALSE, FALSE, st.bus, st)
    /\ SyncInit
    /\ SubjIdle
    /\ ConsIdle
    /\ HandleIdle
    /\ PublisherIdle
    /\ WaiterIdle
    /\ IrsIdle

\* a local pub on topic "x"; every OnH3 of the list adds one handler, and
\* the list is kept within MaxHandlers + 1
DispatchPubCall(data, isCached) ==
    /\ LET list == bus.topicHandlersMap["x"].list
       IN  Len(list) + Occurrences(list, OnH3) <= MaxHandlers + 1
    /\ PubCall("x", data, FALSE, isCached)

NextDispatch ==
    \/ \E h \in DispatchHandlers : OnCall("x", h)
    \/ \E h \in DispatchHandlers \cup {"H3"} : OffCall("x", h)
    \/ \E data \in DataVals, isCached \in BOOLEAN : DispatchPubCall(data, isCached)

SpecDispatch == DispatchInit /\ [][NextDispatch]_vars

(***************************************************************************)
(* SpecUncached: one bus, the subscriptions and pub calls made on it for   *)
(* the topics "x" and "y", cached or not, and the resync_request of other  *)
(* instances delivered to it.  hist holds the pairs <<topic, isCached>> of *)
(* the pub calls made so far.                                              *)
(***************************************************************************)
\* the resync_request message a newly constructed instance sends
ResyncRequestOf(busId, useStorageSync) == NewBus(busId, useStorageSync).out[1]

UncachedInit ==
    /\ BusInit
    /\ views = <<>>
    /\ net = <<>>
    /\ hist = {}
    /\ SubjIdle
    /\ ConsIdle
    /\ HandleIdle
    /\ PublisherIdle
    /\ WaiterIdle
    /\ IrsIdle

\* a call on the bus that ends as st
BusStep(op, topic, h, data, sync, isCached, st) ==
    /\ bus' = st.bus
    /\ lastCall' = CallRecord(op, topic, h, data, sync, isCached, bus, st)
    /\ hist' = IF op = "pub" THEN hist \cup {<<topic, isCached>>} ELSE hist
    /\ UNCHANGED <<views, net, subjVars, consVars, handleVars, publisher, waiter, irs>>

NextUncached ==
    \/ \E topic \in Topics :
          /\ Len(bus.topicHandlersMap[topic].list) + Len(bus.wildcardHandlers) < MaxSubs
          /\ BusStep("on", topic, "H1", NoArg, FALSE, FALSE, On(bus, topic, "H1"))
    \/ /\ Len(bus.wildcardHandlers) < MaxSubs - 1
       /\ BusStep("onAll", NoArg, "W2", NoArg, FALSE, FALSE, Call(OnAll(bus, "W2")))
    \/ \E topic \in Topics, sync \in BOOLEAN, isCached \in BOOLEAN :
          /\ sync => bus.evtNum <= MaxEvtNum
          /\ BusStep("pub", topic, NoArg, "d1", sync, isCached,
                     Pub(bus, topic, "d1", sync, isCached))
    \/ \E busId \in {2, 3} :
          /\ bus.evtNum <= MaxEvtNum + 1
          /\ BusStep("recv", EB_TOPIC, NoArg, RESYNC_REQUEST, FALSE, FALSE,
                     ReceiveEvent(bus, ResyncRequestOf(busId, bus.useStorageSync)))

SpecUncached == UncachedInit /\ [][NextUncached]_vars

(***************************************************************************)
(* SpecReentrant: one bus with a handler of topic "x" that calls pub for   *)
(* "x" while pub is dispatching to it.                                     *)
(***************************************************************************)
ReentrantHandlers == {"H1", "H2", PubD2}

NextReentrant ==
    \/ \E h \in ReentrantHandlers : OnCall("x", h)
    \/ \E h \in ReentrantHandlers : OffCall("x", h)
    \/ \E data \in DataVals, isCached \in BOOLEAN : PubCall("x", data, FALSE, isCached)

SpecReentrant == DispatchInit /\ [][NextReentrant]_vars

(***************************************************************************)
(* SpecSync: the bus instances of several views.  Every view runs          *)
(* new EventBus(useStorageSync) and then subscribes; the transport hands   *)
(* each message to the views that are listening when it is sent (the       *)
(* Coherent listener also to the sender, the storage event to the other    *)
(* views only), one delivery at a time in sending order.  hist records     *)
(* what has happened.                                                      *)
(***************************************************************************)
Views == {"A", "B", "C"}

\* Math.floor(Math.random() * 2147483647): the draws of the views, taken to
\* be different
BusIdOf(v) == CASE v = "A" -> 11 [] v = "B" -> 22 [] v = "C" -> 33

NoBus == [constructed |-> FALSE]

Alive(vs) == {v \in Views : vs[v] # NoBus}

\* the view creates its bus and its components subscribe
StartView(v, useStorageSync) ==
    LET st == NewBus(BusIdOf(v), useStorageSync)
        b1 == On(st.bus, "x", "H1").bus
    IN  [st EXCEPT !.bus = OnAll(b1, "W2")]

\* the transport: the host's listener is one dispatcher; for every message of
\* out it queues one delivery per listening view (the storage event is not
\* delivered to the view that wrote), in sending order
ViewOrder == <<"A", "B", "C">>

Deliver(nt, from, out, useStorageSync, listening) ==
    LET n   == Len(ViewOrder)
        all == [k \in 1..(n * Len(out)) |->
                  [to |-> ViewOrder[((k - 1) % n) + 1], e |-> out[((k - 1) \div n) + 1]]]
        Listens(d) == d.to \in listening /\ (useStorageSync => d.to # from)
    IN  nt \o SelectSeq(all, Listens)

NoMsg == [none |-> TRUE]

\* what the most recent step did: the view, the message delivered (if any),
\* whether the same message was applied by the delivery just before it
\* (again), whether the bus was left as it was, the invocations and the
\* messages sent
LastRecord(kind, v, msg, pre, st, again) ==
    [kind |-> kind, view |-> v, msg |-> msg, again |-> again,
     unchanged |-> (st.bus = pre), log |-> st.log, out |-> st.out]

NoDelivery == [e |-> NoMsg, applied |-> FALSE]

UsesStorage == \E v \in Alive(views) : views[v].useStorageSync

SyncStart ==
    \E s \in BOOLEAN :
       LET st == StartView("A", s)
       IN  /\ views = [v \in Views |-> IF v = "A" THEN st.bus ELSE NoBus]
           /\ net = Deliver(<<>>, "A", st.out, s, {"A"})
           /\ hist = [localPubs |-> 0, redelivered |-> 0, storageRecv |-> 0,
                      last |-> LastRecord("new", "A", NoMsg, st.bus, st, FALSE),
                      sent |-> [v \in Views |-> IF v = "A" THEN st.out ELSE <<>>],
                      published |-> {},
                      pubBefore |-> [v \in Views |-> {}],
                      pubsAtLoad |-> [v \in Views |-> 0],
                      prev |-> [v \in Views |-> NoDelivery]]

InitSync ==
    /\ SyncStart
    /\ SubjIdle
    /\ ConsIdle
    /\ HandleIdle
    /\ PublisherIdle
    /\ WaiterIdle
    /\ IrsIdle
    /\ LET st == NewBus(1, FALSE)
       IN  /\ bus = st.bus
           /\ lastCall = CallRecord("new", NoArg, NoArg, NoArg, FALSE, FALSE, st.bus, st)

\* the views are loaded in the order A, B, C
LoadedBefore(v) == CASE v = "A" -> {} [] v = "B" -> {"A"} [] v = "C" -> {"A", "B"}

\* the k-th local pub publishes a value that differs from the one before
PubValue(k) == IF k % 2 = 0 THEN "d1" ELSE "d2"

\* a further view is loaded
Construct(v) ==
    /\ views[v] = NoBus
    /\ Alive(views) = LoadedBefore(v)
    /\ LET s  == UsesStorage
           st == StartView(v, s)
       IN  /\ views' = [views EXCEPT ![v] = st.bus]
           /\ net' = Deliver(net, v, st.out, s, Alive(views'))
           /\ hist' = [hist EXCEPT
                         !.last = LastRecord("new", v, NoMsg, st.bus, st, FALSE),
                         !.sent[v] = @ \o st.out,
                         !.pubBefore[v] = hist.published,
                         !.pubsAtLoad[v] = hist.localPubs]
    /\ UNCHANGED exceptSync

\* a component of view v publishes on topic x, synced and cached
LocalPub(v) ==
    /\ views[v] # NoBus
    /\ hist.localPubs < MaxLocalPubs
    /\ LET data == PubValue(hist.localPubs)
           sync == TRUE
           isCached == TRUE
           st == Pub(views[v], "x", data, sync, isCached)
       IN  /\ views' = [views EXCEPT ![v] = st.bus]
           /\ net' = Deliver(net, v, st.out, UsesStorage, Alive(views))
           /\ hist' = [hist EXCEPT
                         !.localPubs = @ + 1,
                         !.last = LastRecord("pub", v, NoMsg, views[v], st, FALSE),
                         !.sent[v] = @ \o st.out,
                         !.published = @ \cup {v}]
    /\ UNCHANGED exceptSync

\* the H event publisher of view v dispatches an H event, synced:
\* publish('hEvent', hEvent, sync, false); the topic of H events is "y".
\* The H event is the first publish of a run
LocalEvent(v) ==
    /\ views[v] # NoBus
    /\ hist.localPubs = 0
    /\ LET st == Pub(views[v], "y", "d1", TRUE, FALSE)
       IN  /\ views' = [views EXCEPT ![v] = st.bus]
           /\ net' = Deliver(net, v, st.out, UsesStorage, Alive(views))
           /\ hist' = [hist EXCEPT
                         !.localPubs = @ + 1,
                         !.last = LastRecord("event", v, NoMsg, views[v], st, FALSE),
                         !.sent[v] = @ \o st.out]
    /\ UNCHANGED exceptSync

\* the transport makes its next delivery: receiveEvent(e) of view v; keep
\* tells whether the transport will make the same delivery once more
Handle(keep) ==
    /\ net # <<>>
    /\ UsesStorage => hist.storageRecv < MaxStorageRecv
    /\ LET v  == Head(net).to
           e  == Head(net).e
           st == ReceiveEvent(views[v], e)
       IN  /\ views' = [views EXCEPT ![v] = st.bus]
           /\ net' = Deliver(IF keep THEN net ELSE Tail(net),
                             v, st.out, UsesStorage, Alive(views))
           /\ hist' = [hist EXCEPT
                         !.storageRecv = IF UsesStorage THEN @ + 1 ELSE @,
                         !.redelivered = IF keep THEN @ + 1 ELSE @,
                         !.last = LastRecord("recv", v, e, views[v], st,
                                             hist.prev[v] = [e |-> e, applied |-> TRUE]),
                         !.sent[v] = @ \o st.out,
                         !.prev[v] = [e |-> e, applied |-> st.log # <<>>]]
    /\ UNCHANGED exceptSync

Receive == Handle(FALSE)

Redeliver ==
    /\ hist.redelivered < MaxRedeliver
    /\ Handle(TRUE)

NextSync ==
    \/ \E v \in Views : Construct(v)
    \/ \E v \in Views : LocalPub(v)
    \/ \E v \in Views : LocalEvent(v)
    \/ Receive
    \/ Redeliver

SpecSync == InitSync /\ [][NextSync]_vars

(***************************************************************************)
(* SpecWire: the views A and B on the storage strategy, whose components   *)
(* publish, synced and cached, values of every kind on topic "x".          *)
(***************************************************************************)
\* the values published: a string and an array whose JSON text has a comma,
\* a string whose text has none, and undefined
WirePayloads == {"d1", CommaString, ArrayValue, Undefined}

InitWire == InitSync /\ UsesStorage

\* a component of view v calls pub("x", data, true, true)
WirePub(v, data) ==
    /\ views[v] # NoBus
    /\ hist.localPubs < MaxLocalPubs
    /\ LET st == Pub(views[v], "x", data, TRUE, TRUE)
       IN  /\ views' = [views EXCEPT ![v] = st.bus]
           /\ net' = Deliver(net, v, st.out, UsesStorage, Alive(views))
           /\ hist' = [hist EXCEPT
                         !.localPubs = @ + 1,
                         !.last = LastRecord("pub", v, NoMsg, views[v], st, FALSE),
                         !.sent[v] = @ \o st.out,
                         !.published = @ \cup {v}]
    /\ UNCHANGED exceptSync

NextWire ==
    \/ Construct("B")
    \/ \E v \in {"A", "B"}, data \in WirePayloads : WirePub(v, data)
    \/ Receive

SpecWire == InitWire /\ [][NextWire]_vars

(***************************************************************************)
(* SpecSubject: the observables.  A is a Subject, B = A.map(...) and       *)
(* M = MappedSubject.create(..., A, B) are MappedSubjects, C is a          *)
(* ComputedSubject.  objs holds the fields of each object; a call in       *)
(* progress is [objs, log, threw], where log lists the subscribers invoked.*)
(***************************************************************************)
\* the values given to set
Vals == 0..2

ObjNames == {"A", "B", "M", "C"}

\* the subscriber functions of the callers; s2 throws when it is called with
\* an odd value
Subscribers == {"s1", "s2"}

SubThrows(h, v) == h = "s2" /\ v % 2 = 1

\* inputHandlers[index] of the MappedSubjects: updateValue.bind(this, index)
InputHandler(m, index) ==
    CASE m = "B" -> "B.0"
      [] m = "M" /\ index = 1 -> "M.0"
      [] m = "M" /\ index = 2 -> "M.1"

InputHandlers == {"B.0", "M.0", "M.1"}

HandlerOwner(h) == IF h = "B.0" THEN "B" ELSE "M"

HandlerIndex(h) == IF h = "M.1" THEN 2 ELSE 1

\* the equality functions: DEFAULT_EQUALITY_FUNC (a === b) and a function
\* of a caller that takes values of the same parity as equal
EqualityFunc(eq, a, b) == IF eq = "strict" THEN a = b ELSE a % 2 = b % 2

\* the map functions of B and M
MapFunc(m, inputValues) ==
    IF m = "B" THEN inputValues[1] \div 2
    ELSE 10 * inputValues[1] + inputValues[2]

\* the compute function of C
ComputeFn(v) == v % 2

SubEvent(ev, obj, h, data) == [ev |-> ev, obj |-> obj, h |-> h, data |-> data]

SubjCall(os) == [objs |-> os, log |-> <<>>, threw |-> FALSE]

RECURSIVE NotifyLoop(_, _, _, _)
RECURSIVE UpdateValue(_, _, _)

\* this.subs[i](this.get()): an input handler of a MappedSubject runs
\* updateValue, a subscriber of a caller takes the value and may throw
InvokeSub(st, o, i) ==
    LET subs == st.objs[o].subs
    IN  IF i > Len(subs)
        THEN [st EXCEPT !.threw = TRUE]
        ELSE LET h == subs[i]
                 v == st.objs[o].value
             IN  IF h \in InputHandlers
                 THEN UpdateValue([st EXCEPT !.log = Append(@, SubEvent("listener", o, h, v))],
                                  HandlerOwner(h), HandlerIndex(h))
                 ELSE [st EXCEPT !.log = Append(@, SubEvent("call", o, h, v)),
                                 !.threw = SubThrows(h, v)]

\* AbstractSubscribable.notify: subLen is read once, every call is inside
\* try/catch
NotifyLoop(st, o, i, subLen) ==
    IF i > subLen THEN st
    ELSE LET st1 == InvokeSub(st, o, i)
             st2 == IF st1.threw
                    THEN [st1 EXCEPT !.log = Append(@, SubEvent("caught", o, NoValue, NoValue)),
                                     !.threw = FALSE]
                    ELSE st1
         IN  NotifyLoop(st2, o, i + 1, subLen)

Notify(st, o) == NotifyLoop(st, o, 1, Len(st.objs[o].subs))

\* UpdateValue without the refresh of inputValues[index]
UpdateValueStale(st, m, index) ==
    LET value == MapFunc(m, st.objs[m].inputValues)
    IN  IF ~EqualityFunc(st.objs[m].equality, st.objs[m].value, value)
        THEN Notify([st EXCEPT !.objs[m].value = value], m)
        ELSE st

\* MappedSubject.updateValue(index)
UpdateValue(st, m, index) ==
    LET input == st.objs[m].inputs[index]
        st1   == [st EXCEPT !.objs[m].inputValues[index] = st.objs[input].value]
        value == MapFunc(m, st1.objs[m].inputValues)
    IN  IF ~EqualityFunc(st1.objs[m].equality, st1.objs[m].value, value)
        THEN Notify([st1 EXCEPT !.objs[m].value = value], m)
        ELSE st1

\* SubjectSet without the equality test
SubjectSetAlways(st, o, value) == Notify([st EXCEPT !.objs[o].value = value], o)

\* Subject.set(value), without a mutate function
SubjectSet(st, o, value) ==
    IF ~EqualityFunc(st.objs[o].equality, value, st.objs[o].value)
    THEN Notify([st EXCEPT !.objs[o].value = value], o)
    ELSE st

\* the loop of ComputedSubject.set: this._subs[i](this._computedValue,
\* this._value), without try/catch
RECURSIVE ComputedLoop(_, _, _, _)
ComputedLoop(st, o, i, subLen) ==
    IF i > subLen \/ st.threw THEN st
    ELSE LET subs == st.objs[o].subs
             v    == st.objs[o].value
             st1  == IF i > Len(subs)
                     THEN [st EXCEPT !.threw = TRUE]
                     ELSE [st EXCEPT !.log = Append(@, SubEvent("call", o, subs[i], v)),
                                     !.threw = SubThrows(subs[i], v)]
         IN  ComputedLoop(st1, o, i + 1, subLen)

\* ComputedSubject.set(value)
ComputedSet(st, o, value) ==
    LET st1 == [st EXCEPT !.objs[o].raw = value]
        compValue == ComputeFn(value)
    IN  IF compValue # st1.objs[o].value
        THEN ComputedLoop([st1 EXCEPT !.objs[o].value = compValue], o, 1,
                          Len(st1.objs[o].subs))
        ELSE st1

\* sub(fn, initialNotify) of AbstractSubscribable and of ComputedSubject
Sub(st, o, fn, initialNotify) ==
    LET st1 == [st EXCEPT !.objs[o].subs = Append(@, fn)]
        v   == st1.objs[o].value
    IN  IF initialNotify
        THEN [st1 EXCEPT !.log = Append(@, SubEvent("call", o, fn, v)),
                         !.threw = SubThrows(fn, v)]
        ELSE st1

\* unsub(fn): index = this.subs.indexOf(fn); if (index >= 0) splice(index, 1)
Unsub(os, o, fn) ==
    LET index == IndexOf(os[o].subs, fn)
    IN  IF index >= 0
        THEN [os EXCEPT ![o].subs = Splice1(@, index)]
        ELSE os

\* Destroy that unsubscribes the handler of the first input only
DestroyFirstOnly(os, m) == Unsub(os, os[m].inputs[1], InputHandler(m, 1))

RECURSIVE DestroyFrom(_, _, _)
DestroyFrom(os, m, i) ==
    IF i > Len(os[m].inputs) THEN os
    ELSE DestroyFrom(Unsub(os, os[m].inputs[i], InputHandler(m, i)), m, i + 1)

\* MappedSubject.destroy()
Destroy(os, m) == DestroyFrom(os, m, 1)

NoRaw == -1

\* new Subject(value, equalityFunc) and new ComputedSubject(value, computeFn)
NewSubject(value, eq) ==
    [kind |-> "Subject", value |-> value, raw |-> NoRaw, equality |-> eq,
     subs |-> <<>>, inputs |-> <<>>, inputValues |-> <<>>]

NewComputed(value) ==
    [kind |-> "Computed", value |-> ComputeFn(value), raw |-> value, equality |-> "strict",
     subs |-> <<>>, inputs |-> <<>>, inputValues |-> <<>>]

\* the constructor of MappedSubject: the input values are read, the value is
\* mapped from them, and inputHandlers[i] is subscribed to inputs[i]
RECURSIVE SubInputs(_, _, _)
SubInputs(os, m, i) ==
    IF i > Len(os[m].inputs) THEN os
    ELSE SubInputs([os EXCEPT ![os[m].inputs[i]].subs = Append(@, InputHandler(m, i))],
                   m, i + 1)

\* inputs.map(input => input.get())
RECURSIVE GetAll(_, _)
GetAll(os, inputs) ==
    IF inputs = <<>> THEN <<>>
    ELSE <<os[Head(inputs)].value>> \o GetAll(os, Tail(inputs))

NewMapped(os, m, inputs) ==
    LET inputValues == GetAll(os, inputs)
        obj == [kind |-> "Mapped", value |-> MapFunc(m, inputValues), raw |-> NoRaw,
                equality |-> "strict", subs |-> <<>>, inputs |-> inputs,
                inputValues |-> inputValues]
    IN  SubInputs([os EXCEPT ![m] = obj], m, 1)

\* the objects in the order of their construction: A, C, B, M
NewObjects(eq) ==
    LET o0 == [o \in ObjNames |-> IF o = "C" THEN NewComputed(0) ELSE NewSubject(0, eq)]
    IN  NewMapped(NewMapped(o0, "B", <<"A">>), "M", <<"A", "B">>)

NotDestroyed == -1

\* lastSet records the most recent call: its arguments, the objects before
\* it (pre), the subscribers it invoked (log), whether it threw, and the
\* value M had when destroy was first called (NotDestroyed before that)
SetRecord(op, o, h, x, pre, st, destroyedValue) ==
    [op |-> op, obj |-> o, h |-> h, x |-> x, pre |-> pre, log |-> st.log,
     threw |-> st.threw, destroyedValue |-> destroyedValue]

SubTargets == {"A", "M", "C"}

RECURSIVE CountIn(_, _)
CountIn(list, set) ==
    IF list = <<>> THEN 0
    ELSE (IF Head(list) \in set THEN 1 ELSE 0) + CountIn(Tail(list), set)

NumSubs(os) ==
    CountIn(os["A"].subs, Subscribers) + CountIn(os["M"].subs, Subscribers)
      + CountIn(os["C"].subs, Subscribers)

SubjInit ==
    /\ \E eq \in {"strict", "parity"} :
         /\ objs = NewObjects(eq)
         /\ lastSet = SetRecord("new", NoArg, NoArg, NoRaw, objs, SubjCall(objs), NotDestroyed)
    /\ SyncInit
    /\ ConsIdle
    /\ HandleIdle
    /\ PublisherIdle
    /\ WaiterIdle
    /\ IrsIdle
    /\ LET st == NewBus(1, FALSE)
       IN  /\ bus = st.bus
           /\ lastCall = CallRecord("new", NoArg, NoArg, NoArg, FALSE, FALSE, st.bus, st)

SubCall(o, h, initialNotify) ==
    /\ NumSubs(objs) < MaxSubs
    /\ LET st == Sub(SubjCall(objs), o, h, initialNotify)
       IN  /\ objs' = st.objs
           /\ lastSet' = SetRecord("sub", o, h, NoRaw, objs, st, lastSet.destroyedValue)
    /\ UNCHANGED exceptSubj

UnsubCall(o, h) ==
    /\ objs' = Unsub(objs, o, h)
    /\ lastSet' = SetRecord("unsub", o, h, NoRaw, objs, SubjCall(objs'), lastSet.destroyedValue)
    /\ UNCHANGED exceptSubj

SetCall(x) ==
    /\ LET st == SubjectSet(SubjCall(objs), "A", x)
       IN  /\ objs' = st.objs
           /\ lastSet' = SetRecord("set", "A", NoArg, x, objs, st, lastSet.destroyedValue)
    /\ UNCHANGED exceptSubj

ComputedSetCall(x) ==
    /\ LET st == ComputedSet(SubjCall(objs), "C", x)
       IN  /\ objs' = st.objs
           /\ lastSet' = SetRecord("computedSet", "C", NoArg, x, objs, st,
                                   lastSet.destroyedValue)
    /\ UNCHANGED exceptSubj

DestroyCall ==
    /\ objs' = Destroy(objs, "M")
    /\ lastSet' = SetRecord("destroy", "M", NoArg, NoRaw, objs, SubjCall(objs'),
                            IF lastSet.destroyedValue = NotDestroyed
                            THEN objs["M"].value
                            ELSE lastSet.destroyedValue)
    /\ UNCHANGED exceptSubj

NextSubject ==
    \/ \E o \in SubTargets, h \in Subscribers, n \in BOOLEAN : SubCall(o, h, n)
    \/ \E o \in SubTargets, h \in Subscribers : UnsubCall(o, h)
    \/ \E x \in Vals : SetCall(x)
    \/ \E x \in Vals : ComputedSetCall(x)
    \/ DestroyCall

SpecSubject == SubjInit /\ [][NextSubject]_vars

(***************************************************************************)
(* SpecApply: a Subject O whose value is an object with the fields p and   *)
(* q, its subscribers, and the calls of apply.  The argument of apply is   *)
(* an object given by its own properties in their order.                   *)
(***************************************************************************)
Fields == {"p", "q"}
FieldVals == {0, 1}
ApplySubscribers == {"s1", "s3"}

\* the objects passed to apply: {}, {p: v}, {q: v}, {p: v, q: w} and
\* {q: w, p: v}
Partials ==
    {<<>>} \cup
    { <<[key |-> k, val |-> v]>> : k \in Fields, v \in FieldVals } \cup
    { <<[key |-> "p", val |-> v], [key |-> "q", val |-> w]>> :
         v \in FieldVals, w \in FieldVals } \cup
    { <<[key |-> "q", val |-> w], [key |-> "p", val |-> v]>> :
         v \in FieldVals, w \in FieldVals }

\* ApplyChanged without the break: the property visited last decides
RECURSIVE ApplyChangedLast(_, _, _)
ApplyChangedLast(value, partial, i) ==
    IF i > Len(partial) THEN FALSE
    ELSE IF i = Len(partial) THEN partial[i].val # value[partial[i].key]
    ELSE ApplyChangedLast(value, partial, i + 1)

\* for (const prop in value) { changed = value[prop] !== this.value[prop];
\* if (changed) break; }
RECURSIVE ApplyChanged(_, _, _)
ApplyChanged(value, partial, i) ==
    IF i > Len(partial) THEN FALSE
    ELSE IF partial[i].val # value[partial[i].key] THEN TRUE
    ELSE ApplyChanged(value, partial, i + 1)

\* Object.assign(target, source)
RECURSIVE ObjectAssign(_, _, _)
ObjectAssign(target, source, i) ==
    IF i > Len(source) THEN target
    ELSE ObjectAssign([target EXCEPT ![source[i].key] = source[i].val], source, i + 1)

\* Subject.apply(value)
SubjectApply(st, o, partial) ==
    LET changed == ApplyChanged(st.objs[o].value, partial, 1)
        st1     == [st EXCEPT !.objs[o].value = ObjectAssign(@, partial, 1)]
    IN  IF changed THEN Notify(st1, o) ELSE st1

ApplyInit ==
    /\ \E value \in [Fields -> FieldVals] :
         /\ objs = [o \in {"O"} |-> NewSubject(value, "strict")]
         /\ lastSet = SetRecord("new", NoArg, NoArg, NoRaw, objs, SubjCall(objs), NotDestroyed)
    /\ SyncInit
    /\ ConsIdle
    /\ HandleIdle
    /\ PublisherIdle
    /\ WaiterIdle
    /\ IrsIdle
    /\ LET st == NewBus(1, FALSE)
       IN  /\ bus = st.bus
           /\ lastCall = CallRecord("new", NoArg, NoArg, NoArg, FALSE, FALSE, st.bus, st)

ApplySub(h, initialNotify) ==
    /\ Len(objs["O"].subs) < MaxSubs
    /\ LET st == Sub(SubjCall(objs), "O", h, initialNotify)
       IN  /\ objs' = st.objs
           /\ lastSet' = SetRecord("sub", "O", h, NoRaw, objs, st, NotDestroyed)
    /\ UNCHANGED exceptSubj

ApplyUnsub(h) ==
    /\ objs' = Unsub(objs, "O", h)
    /\ lastSet' = SetRecord("unsub", "O", h, NoRaw, objs, SubjCall(objs'), NotDestroyed)
    /\ UNCHANGED exceptSubj

ApplyCall(partial) ==
    /\ LET st == SubjectApply(SubjCall(objs), "O", partial)
       IN  /\ objs' = st.objs
           /\ lastSet' = SetRecord("apply", "O", NoArg, partial, objs, st, NotDestroyed)
    /\ UNCHANGED exceptSubj

NextApply ==
    \/ \E h \in ApplySubscribers, n \in BOOLEAN : ApplySub(h, n)
    \/ \E h \in ApplySubscribers : ApplyUnsub(h)
    \/ \E partial \in Partials : ApplyCall(partial)

SpecApply == ApplyInit /\ [][NextApply]_vars

(***************************************************************************)
(* SpecConsumer: a Consumer chain.  on(topic) gives a consumer without a   *)
(* filter; every chain method gives a new consumer that holds its own      *)
(* state and the filter function, whose `this` is the consumer it was      *)
(* built from.  chain lists the filter stages in the order they were       *)
(* built; handle is called on the consumer built last.  Numbers are held   *)
(* in tenths, times in milliseconds.                                       *)
(***************************************************************************)
\* the values published on the topic: 0, 0.6, 1.4 and 2.5
NumVals == {0, 6, 14, 25}

\* the chain methods called: atFrequency(10), withPrecision(0),
\* whenChangedBy(1), whenChanged() and onlyAfter(100)
StageKinds ==
    { [kind |-> "atFrequency", param |-> 10],
      [kind |-> "withPrecision", param |-> 0],
      [kind |-> "whenChangedBy", param |-> 10],
      [kind |-> "whenChanged", param |-> 0],
      [kind |-> "onlyAfter", param |-> 100] }

\* the chains built: one or two chain methods of different kinds
Chains ==
    { <<a>> : a \in StageKinds } \cup
    ({ <<a, b>> : a, b \in StageKinds } \ { <<a, a>> : a \in StageKinds })

\* Date.now() when the chain is built, and the steps of the clock
StartTimes == {0, 30}
TickSteps == {60, 80}

Abs(x) == IF x < 0 THEN -x ELSE x

\* Math.round(dataValue * multiplier) / multiplier with multiplier =
\* Math.pow(10, precision), for a value >= 0 held in tenths and precision 0
\* or 1
RoundAtPrecision(tenths, precision) ==
    IF precision = 0 THEN ((tenths + 5) \div 10) * 10 ELSE tenths

\* while ((state.previousTime + deltaTimeTrigger) < currentTime)
\*     state.previousTime += deltaTimeTrigger
RECURSIVE CatchUp(_, _, _)
CatchUp(previousTime, deltaTimeTrigger, currentTime) ==
    IF previousTime + deltaTimeTrigger < currentTime
    THEN CatchUp(previousTime + deltaTimeTrigger, deltaTimeTrigger, currentTime)
    ELSE previousTime

\* AtFrequency that sets previousTime to the current time when it forwards
AtFrequencyToNow(state, frequency, data, currentTime) ==
    LET deltaTimeTrigger == 1000 \div frequency
        deltaTime == currentTime - state
    IN  IF deltaTimeTrigger <= deltaTime
        THEN [forward |-> TRUE, state |-> currentTime, data |-> data]
        ELSE [forward |-> FALSE, state |-> state, data |-> data]

\* AtFrequency that adds one period only (if in place of while)
AtFrequencyOnePeriod(state, frequency, data, currentTime) ==
    LET deltaTimeTrigger == 1000 \div frequency
        deltaTime == currentTime - state
    IN  IF deltaTimeTrigger <= deltaTime
        THEN [forward |-> TRUE,
              state |-> IF state + deltaTimeTrigger < currentTime
                        THEN state + deltaTimeTrigger ELSE state,
              data |-> data]
        ELSE [forward |-> FALSE, state |-> state, data |-> data]

\* the filter of atFrequency(frequency); state is previousTime.  The
\* frequencies used divide 1000
AtFrequency(state, frequency, data, currentTime) ==
    LET deltaTimeTrigger == 1000 \div frequency
        deltaTime == currentTime - state
    IN  IF deltaTimeTrigger <= deltaTime
        THEN [forward |-> TRUE,
              state |-> CatchUp(state, deltaTimeTrigger, currentTime),
              data |-> data]
        ELSE [forward |-> FALSE, state |-> state, data |-> data]

\* WithPrecision that forwards every value, rounded
WithPrecisionAlways(state, precision, data) ==
    LET currentValueAtPrecision == RoundAtPrecision(data, precision)
    IN  [forward |-> TRUE, state |-> currentValueAtPrecision,
         data |-> currentValueAtPrecision]

\* the filter of withPrecision(precision); state is lastValue
WithPrecision(state, precision, data) ==
    LET currentValueAtPrecision == RoundAtPrecision(data, precision)
    IN  IF currentValueAtPrecision # state
        THEN [forward |-> TRUE, state |-> currentValueAtPrecision,
              data |-> currentValueAtPrecision]
        ELSE [forward |-> FALSE, state |-> state, data |-> data]

\* WhenChangedBy that takes every value as the new reference
WhenChangedByTracking(state, amount, data) ==
    LET diff == Abs(data - state)
    IN  [forward |-> diff >= amount, state |-> data, data |-> data]

\* the filter of whenChangedBy(amount); state is lastValue
WhenChangedBy(state, amount, data) ==
    LET diff == Abs(data - state)
    IN  IF diff >= amount
        THEN [forward |-> TRUE, state |-> data, data |-> data]
        ELSE [forward |-> FALSE, state |-> state, data |-> data]

\* the '' that whenChanged starts from: strictly unequal to every number
EmptyString == -1

\* WhenChanged that never stores the value it forwards
WhenChangedStale(state, data) ==
    [forward |-> state # data, state |-> state, data |-> data]

\* the filter of whenChanged(); state is lastValue
WhenChanged(state, data) ==
    IF state # data
    THEN [forward |-> TRUE, state |-> data, data |-> data]
    ELSE [forward |-> FALSE, state |-> state, data |-> data]

\* the filter of onlyAfter(deltaTime); state is previousTime
OnlyAfter(state, deltaTime, data, currentTime) ==
    LET timeDiff == currentTime - state
    IN  IF timeDiff > deltaTime
        THEN [forward |-> TRUE, state |-> state + deltaTime, data |-> data]
        ELSE [forward |-> FALSE, state |-> state, data |-> data]

\* a status flag as the filter state holds it: undefined before the first
\* forward, then the boolean the word's method returned
FlagValue(b) == IF b THEN "true" ELSE "false"

\* WithArinc429Precision that looks at the rounded value only
WithArinc429ValueOnly(state, precision, data) ==
    LET currentValueAtPrecision == RoundAtPrecision(data.value, precision)
    IN  IF currentValueAtPrecision # state.lastValue
        THEN [forward |-> TRUE,
              state |-> [lastValue |-> currentValueAtPrecision,
                         hasNormalOps |-> FlagValue(data.isNormalOperation),
                         isNoComputedData |-> FlagValue(data.isNoComputedData),
                         isFailureWarning |-> FlagValue(data.isFailureWarning)],
              data |-> data]
        ELSE [forward |-> FALSE, state |-> state, data |-> data]

\* the filter of withArinc429Precision(precision); state is { lastValue,
\* hasNormalOps, isNoComputedData, isFailureWarning }, data a word with its
\* value and what its three status methods return
WithArinc429Precision(state, precision, data) ==
    LET currentValueAtPrecision == RoundAtPrecision(data.value, precision)
    IN  IF \/ currentValueAtPrecision # state.lastValue
           \/ state.hasNormalOps # FlagValue(data.isNormalOperation)
           \/ state.isNoComputedData # FlagValue(data.isNoComputedData)
           \/ state.isFailureWarning # FlagValue(data.isFailureWarning)
        THEN [forward |-> TRUE,
              state |-> [lastValue |-> currentValueAtPrecision,
                         hasNormalOps |-> FlagValue(data.isNormalOperation),
                         isNoComputedData |-> FlagValue(data.isNoComputedData),
                         isFailureWarning |-> FlagValue(data.isFailureWarning)],
              data |-> data]
        ELSE [forward |-> FALSE, state |-> state, data |-> data]

Filter(stage, data, currentTime) ==
    CASE stage.kind = "atFrequency" -> AtFrequency(stage.state, stage.param, data, currentTime)
      [] stage.kind = "withPrecision" -> WithPrecision(stage.state, stage.param, data)
      [] stage.kind = "whenChangedBy" -> WhenChangedBy(stage.state, stage.param, data)
      [] stage.kind = "whenChanged" -> WhenChanged(stage.state, data)
      [] stage.kind = "onlyAfter" -> OnlyAfter(stage.state, stage.param, data, currentTime)
      [] stage.kind = "withArinc429Precision" ->
           WithArinc429Precision(stage.state, stage.param, data)

StageEvent(n, kind, data) == [stage |-> n, kind |-> kind, data |-> data]

RECURSIVE CurrentHandler(_, _, _, _)

\* with(data, handler) of consumer n (consumer 0 is the one on(topic)
\* returned): its filter when it has one, else the handler itself
With(st, n, data, currentTime) ==
    IF n > 0
    THEN CurrentHandler(st, n, data, currentTime)
    ELSE [st EXCEPT !.log = Append(@, StageEvent(0, "handler", data))]

\* currentHandler(data, state, next) of consumer n: the filter of stage n,
\* which calls this.with(data, next) on the consumer it was built from
CurrentHandler(st, n, data, currentTime) ==
    LET stage == st.chain[n]
        r     == Filter(stage, data, currentTime)
        st1   == [st EXCEPT !.chain[n].state = r.state,
                            !.log = Append(@, StageEvent(n, stage.kind, data))]
    IN  IF r.forward THEN With(st1, n - 1, r.data, currentTime) ELSE st1

\* the function handle(handler) subscribes on the bus, for the consumer
\* built last
HandlerReference(st, data, currentTime) ==
    CurrentHandler(st, Len(st.chain), data, currentTime)

\* the state a chain method gives its consumer: { previousTime: Date.now() },
\* { lastValue: 0 } (the three flags of withArinc429Precision are absent
\* from it, i.e. undefined) or { lastValue: '' }
NewStage(desc, currentTime) ==
    [kind |-> desc.kind, param |-> desc.param,
     state |-> CASE desc.kind \in {"atFrequency", "onlyAfter"} -> currentTime
                 [] desc.kind = "whenChanged" -> EmptyString
                 [] desc.kind = "withArinc429Precision" ->
                      [lastValue |-> 0, hasNormalOps |-> Undefined,
                       isNoComputedData |-> Undefined, isFailureWarning |-> Undefined]
                 [] OTHER -> 0]

\* what a stage has passed on before it passed anything on
NoForward == -2

\* the value every stage passed on last, after a call that left the log
LastOut(lastOut, log) ==
    [n \in DOMAIN lastOut |->
        IF \E i \in 1..Len(log) : log[i].stage = n - 1
        THEN log[CHOOSE i \in 1..Len(log) : log[i].stage = n - 1].data
        ELSE lastOut[n]]

Forwarded(log) == \E i \in 1..Len(log) : log[i].stage = 0

\* cons: the stages, the clock, the time the chain was built, for every
\* publish so far its time and whether the handler was invoked, and the
\* value every stage passed on last; lastPub: the most recent step
ConsInit ==
    /\ \E descs \in Chains, t \in StartTimes :
         /\ cons = [chain |-> [i \in DOMAIN descs |-> NewStage(descs[i], t)],
                    now |-> t, created |-> t, pubs |-> <<>>,
                    lastOut |-> [i \in DOMAIN descs |-> NoForward]]
         /\ lastPub = [op |-> "new", data |-> 0, pre |-> cons.chain,
                      preOut |-> cons.lastOut, log |-> <<>>]
    /\ SyncInit
    /\ SubjIdle
    /\ HandleIdle
    /\ PublisherIdle
    /\ WaiterIdle
    /\ IrsIdle
    /\ LET st == NewBus(1, FALSE)
       IN  /\ bus = st.bus
           /\ lastCall = CallRecord("new", NoArg, NoArg, NoArg, FALSE, FALSE, st.bus, st)

\* the bus publishes data on the topic: pub calls the subscribed function
ConsumerPub(data) ==
    /\ Len(cons.pubs) < MaxPubs
    /\ LET st == HandlerReference([chain |-> cons.chain, log |-> <<>>], data, cons.now)
       IN  /\ cons' = [cons EXCEPT !.chain = st.chain,
                                   !.pubs = Append(@, [time |-> cons.now,
                                                       forwarded |-> Forwarded(st.log)]),
                                   !.lastOut = LastOut(@, st.log)]
           /\ lastPub' = [op |-> "pub", data |-> data, pre |-> cons.chain,
                          preOut |-> cons.lastOut, log |-> st.log]
    /\ UNCHANGED exceptCons

\* time passes
Tick(step) ==
    /\ cons.now + step <= MaxTime
    /\ cons' = [cons EXCEPT !.now = @ + step]
    /\ lastPub' = [op |-> "tick", data |-> 0, pre |-> cons.chain,
                        preOut |-> cons.lastOut, log |-> <<>>]
    /\ UNCHANGED exceptCons

NextConsumer ==
    \/ \E data \in NumVals : ConsumerPub(data)
    \/ \E step \in TickSteps : Tick(step)

SpecConsumer == ConsInit /\ [][NextConsumer]_vars

(***************************************************************************)
(* SpecArinc: a consumer built by on(topic).withArinc429Precision(n) and   *)
(* the words published to it.  A word is its value (in tenths) and what    *)
(* its methods isNormalOperation, isNoComputedData and isFailureWarning    *)
(* return.                                                                 *)
(***************************************************************************)
\* the values of the words: 0, 0.6 and 1.4
WordVals == {0, 6, 14}

Words ==
    [value : WordVals, isNormalOperation : BOOLEAN, isNoComputedData : BOOLEAN,
     isFailureWarning : BOOLEAN]

ArincInit ==
    /\ \E precision \in {0, 1} :
         /\ cons = [chain |-> <<NewStage([kind |-> "withArinc429Precision",
                                          param |-> precision], 0)>>,
                    now |-> 0, created |-> 0, pubs |-> <<>>,
                    lastOut |-> <<NoForward>>]
         /\ lastPub = [op |-> "new", data |-> 0, pre |-> cons.chain,
                      preOut |-> cons.lastOut, log |-> <<>>]
    /\ SyncInit
    /\ SubjIdle
    /\ HandleIdle
    /\ PublisherIdle
    /\ WaiterIdle
    /\ IrsIdle
    /\ LET st == NewBus(1, FALSE)
       IN  /\ bus = st.bus
           /\ lastCall = CallRecord("new", NoArg, NoArg, NoArg, FALSE, FALSE, st.bus, st)

NextArinc == \E word \in Words : ConsumerPub(word)

SpecArinc == ArincInit /\ [][NextArinc]_vars

(***************************************************************************)
(* SpecHandle: two Consumer objects of topic "x" on one bus, each built by *)
(* its own on("x") followed by at most one chain method (the same for     *)
(* both), and the calls of handle and off made on them with two handler    *)
(* functions; off is called with a handler that handle was called with.    *)
(* The filters used do not read the clock.                                 *)
(***************************************************************************)
ConsumerObjects == {"K1", "K2"}
TerminalHandlers == {"h1", "h2"}
HandleVals == {6, 14}

\* on("x"), on("x").whenChanged() and on("x").whenChangedBy(1)
HandleChains ==
    { <<>>,
      <<[kind |-> "whenChanged", param |-> 0]>>,
      <<[kind |-> "whenChangedBy", param |-> 10]>> }

\* the stages of a chain in the state the chain methods give them
FreshChain(descs) == [i \in DOMAIN descs |-> NewStage(descs[i], 0)]

\* a Consumer as constructed: handlerReference is not set
NewConsumer(descs) == [chain |-> FreshChain(descs), handlerReference |-> Undefined]

\* the arrow function that the n-th call of handle creates
HandlerReferenceOf(n) == "handlerReference" \o ToString(n)

\* the handler function of a call
HandlerCall(handler, sub, data) == [handler |-> handler, sub |-> sub, data |-> data]

\* the value the chain passed to the handler
HandlerData(log) == log[CHOOSE i \in 1..Len(log) : log[i].stage = 0].data

\* the bus calls the function fn with data.  The arrow function of the n-th
\* call of handle runs this.currentHandler(data, this.state, handler) on the
\* consumer of that call, with the handler of that call; any other function
\* is a handler that was subscribed as it is.  soloChain and soloRecv follow
\* the same filter with a state that no other call of handle touches
Invoke(hs, fn, data) ==
    IF \E n \in 1..Len(hs.subs) : hs.subs[n].filtered /\ HandlerReferenceOf(n) = fn
    THEN LET n    == CHOOSE n \in 1..Len(hs.subs) : HandlerReferenceOf(n) = fn
             k    == hs.subs[n].consumer
             r    == HandlerReference([chain |-> hs.obj[k].chain, log |-> <<>>], data, 0)
             solo == HandlerReference([chain |-> hs.subs[n].soloChain, log |-> <<>>], data, 0)
         IN  [hs EXCEPT
                !.obj[k].chain = r.chain,
                !.subs[n].recv = IF Forwarded(r.log) THEN Append(@, HandlerData(r.log)) ELSE @,
                !.subs[n].soloChain = solo.chain,
                !.subs[n].soloRecv = IF Forwarded(solo.log)
                                     THEN Append(@, HandlerData(solo.log)) ELSE @,
                !.calls = IF Forwarded(r.log)
                          THEN Append(@, HandlerCall(hs.subs[n].handler, n, HandlerData(r.log)))
                          ELSE @]
    ELSE [hs EXCEPT !.calls = Append(@, HandlerCall(fn, 0, data))]

\* the functions the bus called during a call, in order
RECURSIVE RunHandlers(_, _, _)
RunHandlers(hs, log, i) ==
    IF i > Len(log) THEN hs
    ELSE IF log[i].ev \in {"direct", "replay"}
         THEN RunHandlers(Invoke(hs, log[i].h, log[i].data), log, i + 1)
         ELSE RunHandlers(hs, log, i + 1)

\* consumers: the Consumer objects (obj); for every call of handle so far
\* its consumer, its handler and the values the handler received through a
\* filter (subs); the handler calls of the most recent step (calls); the
\* number of publishes; the pairs of consumer and handler for which handle
\* was called (handled) and then off (detached).  lastStep: the most recent
\* step
StepRecord(op, k, h, data) == [op |-> op, consumer |-> k, handler |-> h, data |-> data]

HandleInit ==
    /\ \E descs \in HandleChains :
         consumers = [obj |-> [k \in ConsumerObjects |-> NewConsumer(descs)],
                      subs |-> <<>>, calls |-> <<>>, pubs |-> 0,
                      handled |-> {}, detached |-> {}, offCalled |-> FALSE]
    /\ lastStep = StepRecord("new", NoArg, NoArg, NoArg)
    /\ SyncInit
    /\ SubjIdle
    /\ ConsIdle
    /\ PublisherIdle
    /\ WaiterIdle
    /\ IrsIdle
    /\ LET st == NewBus(1, FALSE)
       IN  /\ bus = st.bus
           /\ lastCall = CallRecord("new", NoArg, NoArg, NoArg, FALSE, FALSE, st.bus, st)

\* handle(handler) on consumer k
HandleCall(k, handler) ==
    /\ Len(consumers.subs) < MaxHandleCalls
    /\ LET n        == Len(consumers.subs) + 1
           filtered == consumers.obj[k].chain # <<>>
           fn       == IF filtered THEN HandlerReferenceOf(n) ELSE handler
           hs       == [consumers EXCEPT
                          !.obj[k].handlerReference = IF filtered THEN fn ELSE @,
                          !.subs = Append(@, [consumer |-> k, handler |-> handler,
                                              filtered |-> filtered, recv |-> <<>>,
                                              soloChain |-> FreshChain(consumers.obj[k].chain),
                                              soloRecv |-> <<>>]),
                          !.calls = <<>>,
                          !.handled = @ \cup {<<k, handler>>},
                          !.detached = @ \ {<<k, handler>>}]
           st       == On(bus, "x", fn)
       IN  /\ consumers' = RunHandlers(hs, st.log, 1)
           /\ bus' = st.bus
           /\ lastCall' = CallRecord("on", "x", fn, NoArg, FALSE, FALSE, bus, st)
    /\ lastStep' = StepRecord("handle", k, handler, NoArg)
    /\ UNCHANGED exceptHandle

\* off(handler) on consumer k
ConsumerOff(k, handler) ==
    /\ <<k, handler>> \in consumers.handled
    /\ LET c  == consumers.obj[k]
           fn == IF c.handlerReference # Undefined THEN c.handlerReference ELSE handler
       IN  /\ bus' = Off(bus, "x", fn)
           /\ lastCall' = CallRecord("off", "x", fn, NoArg, FALSE, FALSE, bus, Call(bus'))
    /\ consumers' = [consumers EXCEPT
                       !.calls = <<>>,
                       !.handled = @ \ {<<k, handler>>},
                       !.detached = @ \cup {<<k, handler>>},
                       !.offCalled = TRUE]
    /\ lastStep' = StepRecord("off", k, handler, NoArg)
    /\ UNCHANGED exceptHandle

\* pub("x", data) on the bus
HandlePub(data) ==
    /\ consumers.pubs < MaxHandlePubs
    /\ LET st == Pub(bus, "x", data, FALSE, TRUE)
       IN  /\ consumers' = RunHandlers([consumers EXCEPT !.calls = <<>>, !.pubs = @ + 1],
                                       st.log, 1)
           /\ bus' = st.bus
           /\ lastCall' = CallRecord("pub", "x", NoArg, data, FALSE, TRUE, bus, st)
    /\ lastStep' = StepRecord("pub", NoArg, NoArg, data)
    /\ UNCHANGED exceptHandle

NextHandle ==
    \/ \E k \in ConsumerObjects, h \in TerminalHandlers : HandleCall(k, h)
    \/ \E k \in ConsumerObjects, h \in TerminalHandlers : ConsumerOff(k, h)
    \/ \E data \in HandleVals : HandlePub(data)

SpecHandle == HandleInit /\ [][NextHandle]_vars

(***************************************************************************)
(* SpecPublisher: a SimVarPublisher on one bus.  The pacer is an object of *)
(* the caller: whether there is one is chosen at construction, and what    *)
(* canPublish answers for a topic is an input of every call.  The keys of  *)
(* the simVarMap are topics; SimVar.GetSimVarValue is an input too.        *)
(***************************************************************************)
\* the simVarMap passed to the constructor: "y" is not in it
SimVarKeys == {"x"}

\* Publish that does not ask the pacer
PublishUnpaced(p, st, topic, data, sync, isCached, canPublish) ==
    IF p.publishActive THEN PubIn(st, topic, data, sync, isCached) ELSE st

\* publish(topic, data, sync, isCached), continuing the call st
Publish(p, st, topic, data, sync, isCached, canPublish) ==
    IF p.publishActive /\ (~p.pacer \/ canPublish[topic])
    THEN PubIn(st, topic, data, sync, isCached)
    ELSE st

\* getValue(key)
GetValue(p, key, simVarValue) ==
    IF key \notin p.simvars THEN Undefined ELSE simVarValue[key]

\* onUpdate: for (const data of this.subscribed.values()) ...
RECURSIVE OnUpdate(_, _, _, _, _)
OnUpdate(p, st, i, simVarValue, canPublish) ==
    IF i > Len(p.subscribed) THEN st
    ELSE LET data  == p.subscribed[i]
             value == GetValue(p, data, simVarValue)
             st1   == IF value # Undefined
                      THEN Publish(p, st, data, value, FALSE, TRUE, canPublish)
                      ELSE st
         IN  OnUpdate(p, st1, i + 1, simVarValue, canPublish)

\* Set.add and Set.delete on a set held in insertion order
SetAdd(seq, e) == IF \E i \in 1..Len(seq) : seq[i] = e THEN seq ELSE Append(seq, e)

RECURSIVE SetDelete(_, _)
SetDelete(seq, e) ==
    IF seq = <<>> THEN <<>>
    ELSE IF Head(seq) = e THEN Tail(seq) ELSE <<Head(seq)>> \o SetDelete(Tail(seq), e)

\* the constructors of BasePublisher and SimVarPublisher
NewPublisher(pacer) ==
    [publishActive |-> FALSE, pacer |-> pacer, simvars |-> SimVarKeys, subscribed |-> <<>>]

NoAnswer == [t \in Topics |-> FALSE]

\* the most recent call on the publisher: the publisher before it, what the
\* pacer would answer, and what the bus did
PublisherCall(op, topic, data, canPublish, pre, st) ==
    [op |-> op, topic |-> topic, data |-> data, canPublish |-> canPublish,
     pre |-> pre, log |-> st.log]

\* publisher: the object, the most recent call, whether stopPublish was
\* called with no startPublish since (stopped), and whether startPublish was
\* called after a stopPublish (restarted)
PublisherInit ==
    /\ \E pacer \in BOOLEAN :
         LET st == NewBus(1, FALSE)
             p  == NewPublisher(pacer)
         IN  /\ bus = st.bus
             /\ lastCall = CallRecord("new", NoArg, NoArg, NoArg, FALSE, FALSE, st.bus, st)
             /\ publisher = [obj |-> p, stopped |-> FALSE, restarted |-> FALSE,
                             last |-> PublisherCall("new", NoArg, NoArg, NoAnswer, p, Call(st.bus))]
    /\ SyncInit
    /\ SubjIdle
    /\ ConsIdle
    /\ HandleIdle
    /\ WaiterIdle
    /\ IrsIdle

\* a call on the publisher that does not reach the bus
PublisherStep(op, topic, obj, stopped, restarted) ==
    /\ publisher' = [obj |-> obj, stopped |-> stopped, restarted |-> restarted,
                     last |-> PublisherCall(op, topic, NoArg, NoAnswer, publisher.obj, Call(bus))]
    /\ UNCHANGED busVars
    /\ UNCHANGED exceptPublisher

StartPublish ==
    PublisherStep("startPublish", NoArg, [publisher.obj EXCEPT !.publishActive = TRUE],
                  FALSE, publisher.restarted \/ publisher.stopped)

StopPublish ==
    PublisherStep("stopPublish", NoArg, [publisher.obj EXCEPT !.publishActive = FALSE],
                  TRUE, publisher.restarted)

Subscribe(data) ==
    PublisherStep("subscribe", data, [publisher.obj EXCEPT !.subscribed = SetAdd(@, data)],
                  publisher.stopped, publisher.restarted)

Unsubscribe(data) ==
    PublisherStep("unsubscribe", data, [publisher.obj EXCEPT !.subscribed = SetDelete(@, data)],
                  publisher.stopped, publisher.restarted)

\* a call on the publisher that may reach the bus
PublisherPubStep(op, topic, data, canPublish, st) ==
    /\ publisher' = [publisher EXCEPT
                       !.last = PublisherCall(op, topic, data, canPublish, publisher.obj, st)]
    /\ bus' = st.bus
    /\ lastCall' = CallRecord(op, topic, NoArg, data, FALSE, TRUE, bus, st)
    /\ UNCHANGED exceptPublisher

\* publish(topic, data, false, isCached)
PublishCall(topic, data, isCached, canPublish) ==
    PublisherPubStep("publish", topic, data, canPublish,
                     Publish(publisher.obj, Call(bus), topic, data, FALSE, isCached, canPublish))

OnUpdateCall(simVarValue, canPublish) ==
    PublisherPubStep("onUpdate", NoArg, NoArg, canPublish,
                     OnUpdate(publisher.obj, Call(bus), 1, simVarValue, canPublish))

NextPublisher ==
    \/ StartPublish
    \/ StopPublish
    \/ \E data \in Topics : Subscribe(data)
    \/ \E data \in Topics : Unsubscribe(data)
    \/ \E topic \in Topics, isCached \in BOOLEAN, canPublish \in [Topics -> BOOLEAN] :
          \E data \in Payloads(topic) : PublishCall(topic, data, isCached, canPublish)
    \/ \E simVarValue \in [Topics -> DataVals], canPublish \in [Topics -> BOOLEAN] :
          OnUpdateCall(simVarValue, canPublish)

SpecPublisher == PublisherInit /\ [][NextPublisher]_vars

(***************************************************************************)
(* SpecWait: one call of Wait.awaitCondition.  The predicate is a function *)
(* of the caller: what it returns is an input of every evaluation.  The    *)
(* host runs the requested frame callback and the interval timer; the      *)
(* clock is Date.now() in milliseconds.                                    *)
(***************************************************************************)
Intervals == {-1, 0, 2}
Timeouts == {-1, 0, 2, 3}

TimedOutMessage == "Await condition timed out."
NoReason == "-"

\* the promise and what is scheduled: frame is a requested animation frame,
\* timer the interval timer, due the time it fires next; evaluated tells
\* whether the most recent run of the function called the predicate, sawTrue
\* and sawFalse whether a call of the predicate has returned true and false,
\* sawTrueEarly whether one made before t0 + timeout has returned true
NewWait(interval, timeout, t0) ==
    [interval |-> interval, timeout |-> timeout, t0 |-> t0,
     promise |-> "pending", reason |-> NoReason,
     frame |-> FALSE, timer |-> FALSE, due |-> 0,
     evaluated |-> FALSE, sawTrue |-> FALSE, sawFalse |-> FALSE,
     sawTrueEarly |-> FALSE]

Evaluated(w, now, p) ==
    [w EXCEPT !.evaluated = TRUE, !.sawTrue = @ \/ p, !.sawFalse = @ \/ ~p,
              !.sawTrueEarly = @ \/ (p /\ now - w.t0 < w.timeout)]

\* LoopFunc that tests the deadline also when timeout is zero or less
LoopFuncAlwaysTimed(w, now, p) ==
    IF now - w.t0 >= w.timeout
    THEN [w EXCEPT !.promise = "rejected", !.reason = TimedOutMessage, !.evaluated = FALSE]
    ELSE IF p
         THEN [Evaluated(w, now, p) EXCEPT !.promise = "resolved"]
         ELSE [Evaluated(w, now, p) EXCEPT !.frame = TRUE]

\* loopFunc(resolve, reject)
LoopFunc(w, now, p) ==
    IF w.timeout > 0 /\ now - w.t0 >= w.timeout
    THEN [w EXCEPT !.promise = "rejected", !.reason = TimedOutMessage, !.evaluated = FALSE]
    ELSE IF p
         THEN [Evaluated(w, now, p) EXCEPT !.promise = "resolved"]
         ELSE [Evaluated(w, now, p) EXCEPT !.frame = TRUE]

\* the callback of setInterval
TimerCallback(w, now, p) ==
    IF w.timeout > 0 /\ now - w.t0 > w.timeout
    THEN [w EXCEPT !.timer = FALSE, !.promise = "rejected", !.reason = TimedOutMessage,
                   !.evaluated = FALSE]
    ELSE IF p
         THEN [Evaluated(w, now, p) EXCEPT !.timer = FALSE, !.promise = "resolved"]
         ELSE Evaluated(w, now, p)

\* awaitCondition(predicate, interval, timeout) called at the time now
AwaitCondition(interval, timeout, now, p) ==
    LET w == NewWait(interval, timeout, now)
    IN  IF interval <= 0
        THEN LoopFunc(w, now, p)
        ELSE [w EXCEPT !.timer = TRUE, !.due = now + interval]

NotCalled == [promise |-> "none"]

\* waiter: the clock, the call (NotCalled before it) and the most recent
\* step with the call as it was before the step
WaitInit ==
    /\ waiter = [now |-> 0, call |-> NotCalled, last |-> [op |-> "new", pre |-> NotCalled]]
    /\ SyncInit
    /\ SubjIdle
    /\ ConsIdle
    /\ HandleIdle
    /\ PublisherIdle
    /\ IrsIdle
    /\ LET st == NewBus(1, FALSE)
       IN  /\ bus = st.bus
           /\ lastCall = CallRecord("new", NoArg, NoArg, NoArg, FALSE, FALSE, st.bus, st)

WaitStep(op, call) ==
    /\ waiter' = [waiter EXCEPT !.call = call, !.last = [op |-> op, pre |-> waiter.call]]
    /\ UNCHANGED exceptWaiter

\* the call; the clock has room for the deadline and one more interval
AwaitCall(interval, timeout, p) ==
    /\ waiter.call = NotCalled
    /\ timeout > 0 => waiter.now + timeout + interval <= MaxClock
    /\ interval > 0 => ~p
    /\ WaitStep("call", AwaitCondition(interval, timeout, waiter.now, p))

\* the host runs the requested animation frame callback
AnimationFrame(p) ==
    /\ waiter.call # NotCalled
    /\ waiter.call.frame
    /\ WaitStep("frame", LoopFunc([waiter.call EXCEPT !.frame = FALSE], waiter.now, p))

\* the host runs the callback of the interval timer, at its time or later
IntervalFire(p) ==
    /\ waiter.call # NotCalled
    /\ waiter.call.timer
    /\ waiter.now >= waiter.call.due
    /\ WaitStep("interval",
                TimerCallback([waiter.call EXCEPT !.due = @ + waiter.call.interval],
                              waiter.now, p))

\* a millisecond passes
ClockTick ==
    /\ waiter.now < MaxClock
    /\ waiter' = [waiter EXCEPT !.now = @ + 1, !.last = [op |-> "tick", pre |-> waiter.call]]
    /\ UNCHANGED exceptWaiter

Frames == \E p \in BOOLEAN : AnimationFrame(p)

Fires == \E p \in BOOLEAN : IntervalFire(p)

NextWait ==
    \/ \E interval \in Intervals, timeout \in Timeouts, p \in BOOLEAN :
          AwaitCall(interval, timeout, p)
    \/ Frames
    \/ Fires
    \/ ClockTick

SpecWait == WaitInit /\ [][NextWait]_vars

\* the host keeps running frames and timers, and time goes on
SpecWaitFair ==
    SpecWait /\ WF_vars(Frames) /\ WF_vars(Fires) /\ WF_vars(ClockTick)

(***************************************************************************)
(* SpecIRS: one SaltyIRS object after init() and the update calls made on  *)
(* it.  irs holds the simulator variables L:SALTY_IRS_STATE and            *)
(* L:SALTY_IRS_TIME_LEFT, the fields irsTimer (seconds) and lastTime of    *)
(* the object, and the most recent update.  update reads Date.now() only   *)
(* to subtract lastTime from it, so the clock is given by the time elapsed *)
(* since the previous call (milliseconds) and lastTime by whether it is    *)
(* set.  Latitudes are held in tenths of a degree.                         *)
(***************************************************************************)
\* PLANE LATITUDE at an update: 30 S, 70.2 N, 78.1 N, 78.2 N
Latitudes == {-300, 702, 781, 782}
\* 1020 * (1 + (1 / latitudeFactor)) with latitudeFactor = cos(latitude), to
\* the whole second above: cos(78.2 degrees) = 0.204496
HighLatitudeTimer(latitude) == IF latitude = 782 THEN 6008 ELSE 1020 * 13
\* the positions of the three IRS knobs: all off, one on, all on
KnobSettings == {<<0, 0, 0>>, <<0, 1, 0>>, <<1, 1, 1>>}
\* the time between two update calls, in milliseconds
Elapsed == {0, 400000, 3000000}
\* the value of L:SALTY_IRS_STATE when init() is called
PersistedStates == {0, 1, 2}

\* lastTime once it holds a time (a field that is not null)
TimeNow == <<"timeNow">>

\* update that goes on without electricity
UpdateUnpowered(s, electricityIsAvail, elapsed, plane, knobs) ==
    [s EXCEPT !.lastTime = TimeNow, !.state = 0]

\* update(electricityIsAvail), with what it reads: the time since the
\* previous call, PLANE LATITUDE and the three knobs.  writes lists the
\* values it wrote to L:SALTY_IRS_STATE, entered the countdown it started
\* (0 when it started none) and decremented whether it ran the countdown
Update(s, electricityIsAvail, elapsed, plane, knobs) ==
    LET deltaTime == IF s.lastTime = Null THEN 0 ELSE elapsed
        s0 == [s EXCEPT !.lastTime = TimeNow, !.writes = <<>>, !.entered = 0,
                        !.decremented = FALSE]
        latitude == Abs(plane)
        isIRSOn == knobs[1] >= 1 /\ knobs[2] >= 1 /\ knobs[3] >= 1
        isSomeIRSOn == knobs[1] >= 1 \/ knobs[2] >= 1 \/ knobs[3] >= 1
        s1 == [s0 EXCEPT !.timeLeft = s0.irsTimer]
        s2 == IF ~isSomeIRSOn /\ s1.state # 0
              THEN [s1 EXCEPT !.state = 0, !.writes = Append(@, 0)]
              ELSE s1
        irsTimer == IF latitude < 702 THEN 600
                    ELSE IF latitude >= 702 /\ latitude < 782 THEN 1020
                    ELSE HighLatitudeTimer(latitude)
        s3 == IF isIRSOn /\ s2.state = 0
              THEN [s2 EXCEPT !.state = 1, !.writes = Append(@, 1),
                              !.irsTimer = irsTimer, !.entered = irsTimer]
              ELSE s2
        left == s3.irsTimer - deltaTime \div 1000
        s4 == IF s3.state = 1 /\ s3.irsTimer > 0
              THEN IF left <= 0
                   THEN [s3 EXCEPT !.irsTimer = -1, !.state = 2,
                                   !.writes = Append(@, 2), !.decremented = TRUE]
                   ELSE [s3 EXCEPT !.irsTimer = left, !.decremented = TRUE]
              ELSE s3
    IN  IF ~electricityIsAvail THEN [s0 EXCEPT !.decremented = FALSE] ELSE s4

\* the object after the constructor and init(): irsTimer -1, no lastTime
NewIRS(persisted) ==
    [state |-> persisted, timeLeft |-> 0, irsTimer |-> -1, lastTime |-> Null,
     writes |-> <<>>, entered |-> 0, decremented |-> FALSE]

\* irs.obj is the object and the simulator variables; started is the
\* countdown started on entering state 1 most recently, consumed the time
\* (ms) the updates have taken from it since, last the most recent update
\* (with the latitude it read, when it started a countdown)
IrsStart ==
    /\ \E persisted \in PersistedStates :
         irs = [obj |-> NewIRS(persisted), started |-> 0, consumed |-> 0,
                last |-> [op |-> "init", pre |-> NewIRS(persisted),
                          electricityIsAvail |-> FALSE, plane |-> 0,
                          deltaTime |-> 0]]
    /\ SyncInit
    /\ SubjIdle
    /\ ConsIdle
    /\ HandleIdle
    /\ PublisherIdle
    /\ WaiterIdle
    /\ LET st == NewBus(1, FALSE)
       IN  /\ bus = st.bus
           /\ lastCall = CallRecord("new", NoArg, NoArg, NoArg, FALSE, FALSE, st.bus, st)

UpdateCall(electricityIsAvail, elapsed, plane, knobs) ==
    /\ LET obj == Update(irs.obj, electricityIsAvail, elapsed, plane, knobs)
           deltaTime == IF irs.obj.lastTime = Null THEN 0 ELSE elapsed
           started == IF obj.entered > 0 THEN obj.entered ELSE irs.started
           before == IF obj.entered > 0 THEN 0 ELSE irs.consumed
       IN  irs' = [obj |-> obj,
                   started |-> started,
                   consumed |-> IF obj.decremented THEN before + deltaTime ELSE before,
                   last |-> [op |-> "update", pre |-> irs.obj,
                             electricityIsAvail |-> electricityIsAvail,
                             plane |-> IF obj.entered > 0 THEN plane ELSE 0,
                             deltaTime |-> deltaTime]]
    /\ UNCHANGED exceptIrs

NextIRS ==
    \E electricityIsAvail \in BOOLEAN, elapsed \in Elapsed, plane \in Latitudes,
       knobs \in KnobSettings :
          UpdateCall(electricityIsAvail, elapsed, plane, knobs)

SpecIRS == IrsStart /\ [][NextIRS]_vars

\* SpecIRSOn: electricity stays available, the three knobs stay on, and
\* update keeps being called with time advancing
UpdateOn == \E elapsed \in Elapsed \ {0}, plane \in Latitudes :
               UpdateCall(TRUE, elapsed, plane, <<1, 1, 1>>)

SpecIRSOn == IrsStart /\ [][UpdateOn]_vars /\ WF_vars(UpdateOn)

(***************************************************************************)
(* Properties of one bus (Spec).                                           *)
(***************************************************************************)
IsDispatch(event) == event.ev \in {"direct", "sync", "wildcard"}

IsWildcard(event) == event.ev = "wildcard"

IsCaught(event) == event.ev = "caught"

\* the invocations a pub call is to make, given the bus at its start
ExpectedDirect(pre, topic, data) ==
    LET hs == pre.topicHandlersMap[topic].list
    IN  [i \in 1..Len(hs) |-> LogEvent("direct", hs[i], topic, data)]

ExpectedWildcard(pre, topic, data) ==
    [i \in 1..Len(pre.wildcardHandlers) |->
        LogEvent("wildcard", pre.wildcardHandlers[i], topic, data)]

ExpectedPubLog(pre, topic, data, sync) ==
    ExpectedDirect(pre, topic, data)
      \o (IF sync THEN <<LogEvent("sync", "-", topic, data)>> ELSE <<>>)
      \o ExpectedWildcard(pre, topic, data)

\* C1: a pub call invokes every direct handler of the topic in registration
\* order, then forwards to the adapter if sync is true, then invokes every
\* wildcard handler in registration order, and nothing else in between.
PubDispatchOrder ==
    lastCall.op = "pub" =>
        SelectSeq(lastCall.log, IsDispatch) =
            ExpectedPubLog(lastCall.pre, lastCall.topic, lastCall.data, lastCall.sync)

\* C2: on(topic, handler) invokes the handler exactly once, with the cached
\* value, when the bus holds a cached value for the topic, and does not
\* invoke it when no value is cached; the handler is registered last.
ReplayOnSubscribe ==
    lastCall.op = "on" =>
        /\ lastCall.log =
             IF CacheHas(lastCall.pre.eventCache, lastCall.topic)
             THEN <<LogEvent("replay", lastCall.h, lastCall.topic,
                             CacheGet(lastCall.pre.eventCache, lastCall.topic).data)>>
             ELSE <<>>
        /\ bus.topicHandlersMap[lastCall.topic].list =
             Append(lastCall.pre.topicHandlersMap[lastCall.topic].list, lastCall.h)

ReplayHappened ==
    /\ lastCall.op = "on"
    /\ CacheHas(lastCall.pre.eventCache, lastCall.topic)
    /\ Len(lastCall.log) = 1
    /\ Len(lastCall.pre.topicHandlersMap[lastCall.topic].list) > 0

\* C3 as stated: after a pub call the cached value of its topic is the data
\* of that call, whatever its flags.
CacheIsMostRecentPub ==
    lastCall.op = "pub" =>
        /\ CacheHas(bus.eventCache, lastCall.topic)
        /\ CacheGet(bus.eventCache, lastCall.topic).data = lastCall.data

SameEntry(c1, c2, topic) ==
    /\ CacheHas(c1, topic) <=> CacheHas(c2, topic)
    /\ CacheHas(c1, topic) => CacheGet(c1, topic) = CacheGet(c2, topic)

\* C3 amended: the cached value of each topic is the data of the most recent
\* pub call made for that topic with isCached true, whatever the sync flag:
\* such a call sets the entry of its topic to its data and its sync flag and
\* leaves the other topics' entries alone, and every other call (a pub with
\* isCached false included) leaves the cache as it was.
CacheIsMostRecentCachedPub ==
    /\ (lastCall.op = "pub" /\ lastCall.isCached) =>
          /\ CacheHas(bus.eventCache, lastCall.topic)
          /\ CacheGet(bus.eventCache, lastCall.topic) =
                [topic |-> lastCall.topic, data |-> lastCall.data, synced |-> lastCall.sync]
          /\ \A t \in AllTopics \ {lastCall.topic} :
                SameEntry(bus.eventCache, lastCall.pre.eventCache, t)
    /\ ~(lastCall.op = "pub" /\ lastCall.isCached) =>
          bus.eventCache = lastCall.pre.eventCache

CachedValueOverwritten ==
    /\ lastCall.op = "pub"
    /\ lastCall.isCached
    /\ ~lastCall.sync
    /\ CacheHas(lastCall.pre.eventCache, lastCall.topic)
    /\ CacheGet(lastCall.pre.eventCache, lastCall.topic).synced
    /\ CacheGet(lastCall.pre.eventCache, lastCall.topic).data # lastCall.data
    /\ Len(bus.eventCache) = 2

\* C4: when a direct handler throws during pub, every handler of the topic
\* is still invoked in registration order, the sync forward and the wildcard
\* handlers still happen, and pub returns normally.
DirectThrowContained ==
    (lastCall.op = "pub" /\ SelectSeq(lastCall.log, IsCaught) # <<>>) =>
        /\ SelectSeq(lastCall.log, IsDispatch) =
             ExpectedPubLog(lastCall.pre, lastCall.topic, lastCall.data, lastCall.sync)
        /\ ~lastCall.threw

\* C5: an exception of any handler reached through the dispatch of pub, a
\* wildcard handler included, does not reach the caller of pub and does not
\* keep the remaining wildcard handlers from being invoked.
HandlerExceptionsCaught ==
    lastCall.op = "pub" =>
        /\ ~lastCall.threw
        /\ SelectSeq(lastCall.log, IsWildcard) =
             ExpectedWildcard(lastCall.pre, lastCall.topic, lastCall.data)

(***************************************************************************)
(* Properties of the dispatch with handlers that subscribe and unsubscribe *)
(* (SpecDispatch).                                                         *)
(***************************************************************************)
\* the handlers a call unsubscribed, and the events of the log that invoke h
OffDuring(log) == {log[i].h : i \in {j \in 1..Len(log) : log[j].ev = "off"}}

Invocations(log, h, evs) ==
    LET Is(event) == event.h = h /\ event.ev \in evs
    IN  SelectSeq(log, Is)

\* h was subscribed by a handler during the call and not before it
AddedDuring(call, h) ==
    /\ call.op = "pub"
    /\ Occurrences(call.pre.topicHandlersMap[call.topic].list, h) = 0
    /\ Invocations(call.log, h, {"on"}) # <<>>

\* C12: every handler that is registered for the topic when a local pub
\* begins and is not unsubscribed during that pub is invoked by it with the
\* pub's data, once per registration, also when a handler calls off from
\* inside the dispatch.
NoHandlerSkipped ==
    lastCall.op = "pub" =>
        LET list == lastCall.pre.topicHandlersMap[lastCall.topic].list
        IN  \A i \in 1..Len(list) :
                list[i] \notin OffDuring(lastCall.log) =>
                    /\ Len(Invocations(lastCall.log, list[i], {"direct"}))
                          = Occurrences(list, list[i])
                    /\ \A k \in 1..Occurrences(list, list[i]) :
                          Invocations(lastCall.log, list[i], {"direct"})[k].data
                            = lastCall.data

\* C13: a handler subscribed with on from inside a handler during
\* pub(topic, d) is not called between the start and the return of that pub,
\* neither by the dispatch loop nor by the replay of on nor as a wildcard
\* handler.
AddedHandlerNeverCalled ==
    AddedDuring(lastCall, "H3") =>
        Invocations(lastCall.log, "H3", {"direct", "replay", "wildcard"}) = <<>>

(***************************************************************************)
(* Properties of the synchronised buses (SpecSync).                        *)
(***************************************************************************)
Quiescent == net = <<>>

XHas(v) == CacheHas(views[v].eventCache, "x")

XData(v) == CacheGet(views[v].eventCache, "x").data

\* the step before was a delivery that the bus applied (it called pub) for
\* an ordinary topic
AppliedOrdinary ==
    /\ hist.last.kind = "recv"
    /\ hist.last.log # <<>>
    /\ hist.last.log[1].topic \in Topics

\* C6: an event that a bus applies because it was received from another
\* instance is not forwarded again to the synchronisation adapter, with
\* either strategy.
ReceivedEventNotForwarded == AppliedOrdinary => hist.last.out = <<>>

\* C7: when view a has published x (synced, cached) and view b is loaded
\* afterwards, then once b's resync_request and the answers to it are
\* delivered, b's cache holds a's value of x.  Stated for the runs in which
\* nothing is published after b was loaded.
ResyncRoundTrip ==
    Quiescent =>
        \A b \in Alive(views) : \A a \in hist.pubBefore[b] :
            hist.localPubs = hist.pubsAtLoad[b] =>
                XHas(b) /\ XData(b) = XData(a)

\* C8: once publishing has stopped and every message is delivered, all
\* views hold the same cached value of x.  Stated for the runs in which
\* every view was loaded before the first pub.
EventuallyConsistent ==
    (Quiescent /\ \A v \in Alive(views) : hist.pubsAtLoad[v] = 0) =>
        \A a, b \in Alive(views) :
            /\ XHas(a) <=> XHas(b)
            /\ XHas(a) => XData(a) = XData(b)

IsCoherentDelivery == hist.last.kind = "recv" /\ ~UsesStorage

\* C9: a message whose busId is the receiving bus's own leaves the bus
\* unchanged (cache, handler lists, last processed sequence number), invokes
\* no handler and sends nothing.
SelfEchoIgnored ==
    (IsCoherentDelivery /\ hist.last.msg.busId = BusIdOf(hist.last.view)) =>
        /\ hist.last.unchanged
        /\ hist.last.log = <<>>
        /\ hist.last.out = <<>>

SelfEchoDelivered ==
    /\ IsCoherentDelivery
    /\ hist.last.msg.busId = BusIdOf(hist.last.view)
    /\ hist.last.msg.topic = "x"
    /\ hist.last.msg.isCached
    /\ XData(hist.last.view) # hist.last.msg.data

\* C10: a message of another bus that is delivered again right after the
\* receiver applied it is not applied a second time, and the messages a bus
\* sends carry the sequence numbers 0, 1, 2, ... in sending order.
DuplicateAppliedOnce ==
    /\ (IsCoherentDelivery /\ hist.last.again
          /\ hist.last.msg.busId # BusIdOf(hist.last.view)) =>
          /\ hist.last.unchanged
          /\ hist.last.log = <<>>
          /\ hist.last.out = <<>>
    /\ ~UsesStorage =>
          \A v \in Views : \A i \in 1..Len(hist.sent[v]) :
              hist.sent[v][i].evtNum = i - 1

DuplicateDelivered ==
    /\ IsCoherentDelivery
    /\ hist.last.again
    /\ hist.last.msg.busId # BusIdOf(hist.last.view)
    /\ hist.last.msg.topic = "x"
    /\ Len(hist.sent[hist.last.view]) > 1

\* the topic of a synchronisation message of either strategy
MsgTopic(msg) == IF UsesStorage THEN msg.newValue[1][2] ELSE msg.topic

YHas(v) == CacheHas(views[v].eventCache, "y")

\* C11: with the storage relay, an event received from another instance is
\* re-published locally with sync false (nothing is sent again), updates the
\* receiver's cache when the originating pub was cached (topic x) and leaves
\* the receiver without a cached value when it was not (the H events of
\* topic y), so that a late subscriber of y gets no replay.
StorageRelayKeepsIsCached ==
    (AppliedOrdinary /\ UsesStorage) =>
        /\ hist.last.out = <<>>
        /\ MsgTopic(hist.last.msg) = "x" => XHas(hist.last.view)
        /\ MsgTopic(hist.last.msg) = "y" => ~YHas(hist.last.view)

(***************************************************************************)
(* Properties of the observables (SpecSubject).                            *)
(***************************************************************************)
\* the invocations of the subscribers of object o in a log
InvokedOn(log, o) ==
    LET Is(event) == event.obj = o /\ event.ev \in {"call", "listener"}
    IN  SelectSeq(log, Is)

\* every subscriber in the list invoked once, in order, with value v
ExpectedInvoked(o, subs, v) ==
    [i \in 1..Len(subs) |->
        SubEvent(IF subs[i] \in InputHandlers THEN "listener" ELSE "call", o, subs[i], v)]

\* C14: set(x) on a Subject with equality(x, current) true invokes no
\* subscriber and leaves every value as it was; with equality false it
\* stores x and invokes every subscriber once, in subscription order, with
\* the new value.
EqualitySuppressesNotify ==
    lastSet.op = "set" =>
        LET pre == lastSet.pre["A"]
        IN  IF EqualityFunc(pre.equality, lastSet.x, pre.value)
            THEN lastSet.log = <<>> /\ objs = lastSet.pre
            ELSE /\ objs["A"].value = lastSet.x
                 /\ InvokedOn(lastSet.log, "A") = ExpectedInvoked("A", pre.subs, lastSet.x)
                 /\ ~lastSet.threw

SetSuppressed ==
    /\ lastSet.op = "set"
    /\ lastSet.x # lastSet.pre["A"].value
    /\ EqualityFunc(lastSet.pre["A"].equality, lastSet.x, lastSet.pre["A"].value)
    /\ CountIn(objs["A"].subs, Subscribers) = 2

Destroyed == lastSet.destroyedValue # NotDestroyed

\* C15: while M is not destroyed, after every call M.get() equals, per M's
\* equality function, the map function applied to the current values of its
\* inputs A and B, where B is itself mapped from A.
MappedIsCombinerOfInputs ==
    ~Destroyed =>
        /\ EqualityFunc(objs["M"].equality, objs["M"].value,
                        MapFunc("M", <<objs["A"].value, objs["B"].value>>))
        /\ EqualityFunc(objs["B"].equality, objs["B"].value,
                        MapFunc("B", <<objs["A"].value>>))

BothInputsChanged ==
    /\ ~Destroyed
    /\ lastSet.op = "set"
    /\ objs["A"].value # lastSet.pre["A"].value
    /\ objs["B"].value # lastSet.pre["B"].value
    /\ Len(InvokedOn(lastSet.log, "M")) = 2

\* C16: when a subscriber throws during the notification of a set (on the
\* Subject, on a MappedSubject through it, or on the ComputedSubject), every
\* subscriber of the notifying object is still invoked and set returns
\* without the exception.
SubscriberThrowContained ==
    lastSet.op \in {"set", "computedSet"} =>
        /\ ~lastSet.threw
        /\ lastSet.log # <<>> =>
             Len(InvokedOn(lastSet.log, lastSet.obj)) = Len(lastSet.pre[lastSet.obj].subs)

\* C17: after M.destroy() no input of M holds a handler of M, no later call
\* changes M's value or invokes M's subscribers, and M.get() is the value M
\* had when destroy was called.
DestroyDetaches ==
    Destroyed =>
        /\ \A o \in ObjNames : \A i \in 1..Len(objs[o].subs) :
              objs[o].subs[i] \in InputHandlers => HandlerOwner(objs[o].subs[i]) # "M"
        /\ objs["M"].value = lastSet.destroyedValue
        /\ lastSet.op \in {"set", "computedSet", "destroy"} =>
              InvokedOn(lastSet.log, "M") = <<>>

SetAfterDestroy ==
    /\ Destroyed
    /\ lastSet.op = "set"
    /\ objs["B"].value # lastSet.pre["B"].value
    /\ objs["M"].value # MapFunc("M", <<objs["A"].value, objs["B"].value>>)
    /\ CountIn(objs["M"].subs, Subscribers) > 0

(***************************************************************************)
(* Properties of the Consumer chain (SpecConsumer).                        *)
(***************************************************************************)
\* C18: in a chain built by two chain methods, a published value is seen
\* first, as published, by the stage built first, and the stage built second
\* only sees what the first forwarded, before the handler is reached.
ChainConstructionOrder ==
    (lastPub.op = "pub" /\ Len(cons.chain) = 2) =>
        /\ lastPub.log # <<>>
        /\ lastPub.log[1].stage = 1
        /\ lastPub.log[1].data = lastPub.data
        /\ Len(lastPub.log) > 1 => lastPub.log[2].stage = 2
        /\ Len(lastPub.log) > 2 => lastPub.log[3].stage = 0

\* a single atFrequency(10) stage built at t = 0 that received publishes at
\* t = 0, 60 and 140
ThreePublishes ==
    /\ Len(cons.chain) = 1
    /\ cons.chain[1].kind = "atFrequency"
    /\ cons.chain[1].param = 10
    /\ cons.created = 0
    /\ Len(cons.pubs) = 3
    /\ cons.pubs[1].time = 0
    /\ cons.pubs[2].time = 60
    /\ cons.pubs[3].time = 140
    /\ cons.now = 140

\* C19 as stated: the handler is invoked for the publishes at t = 0 and
\* t = 140 and not for the one at t = 60, and previousTime is then a multiple
\* of 100 and not 140.
FrequencyCapExample ==
    ThreePublishes =>
        /\ cons.pubs[1].forwarded
        /\ ~cons.pubs[2].forwarded
        /\ cons.pubs[3].forwarded
        /\ cons.chain[1].state % 100 = 0
        /\ cons.chain[1].state # 140

\* C19 amended: the handler is invoked for the publish at t = 140 only (at
\* t = 0 and t = 60 less than one period has passed since the stage was
\* built), and previousTime is then 100.
FrequencyCapFromCreation ==
    ThreePublishes =>
        /\ ~cons.pubs[1].forwarded
        /\ ~cons.pubs[2].forwarded
        /\ cons.pubs[3].forwarded
        /\ cons.chain[1].state = 100

ThreePublishesDone == ThreePublishes /\ lastPub.op = "pub" /\ Forwarded(lastPub.log)

\* stage n of the chain took part in the last publish, and forwarded in it
StageRan(n) == \E i \in 1..Len(lastPub.log) : lastPub.log[i].stage = n

StageForwarded(n) == \E i \in 1..Len(lastPub.log) : lastPub.log[i].stage = n - 1

\* C20: an atFrequency stage changes previousTime only when it forwards;
\* previousTime minus the time the stage was built is always a multiple of
\* the period, previousTime is never later than the current time, and right
\* after a forward the current time minus previousTime is at most one period.
FrequencyClockInvariant ==
    \A n \in 1..Len(cons.chain) :
        cons.chain[n].kind = "atFrequency" =>
            LET period == 1000 \div cons.chain[n].param
                previousTime == cons.chain[n].state
            IN  /\ (previousTime - cons.created) % period = 0
                /\ previousTime <= cons.now
                /\ previousTime # lastPub.pre[n].state =>
                      lastPub.op = "pub" /\ StageRan(n) /\ StageForwarded(n)
                /\ (lastPub.op = "pub" /\ StageRan(n) /\ StageForwarded(n)) =>
                      cons.now - previousTime <= period

CaughtUpAfterGap ==
    /\ lastPub.op = "pub"
    /\ \E n \in 1..Len(cons.chain) :
          /\ cons.chain[n].kind = "atFrequency"
          /\ cons.created = 30
          /\ cons.chain[n].state - lastPub.pre[n].state = 200
          /\ cons.now - cons.chain[n].state < 100

\* the chain has a stage of the kind
HasStage(kind) == \E n \in 1..Len(cons.chain) : cons.chain[n].kind = kind

\* publishes i and j reached the handler, and none in between did
ConsecutiveInvocations(i, j) ==
    /\ i < j
    /\ cons.pubs[i].forwarded
    /\ cons.pubs[j].forwarded
    /\ \A k \in (i + 1)..(j - 1) : ~cons.pubs[k].forwarded

\* C21: through a chain with an onlyAfter(100) stage, any two consecutive
\* invocations of the handler are more than 100 ms apart.
OnlyAfterMinimumGap ==
    HasStage("onlyAfter") =>
        \A i, j \in 1..Len(cons.pubs) :
            ConsecutiveInvocations(i, j) =>
                cons.pubs[j].time - cons.pubs[i].time > 100

\* the value stage n received in the last publish, and the value it passed
\* on to the next function
StageInput(n) ==
    lastPub.log[CHOOSE i \in 1..Len(lastPub.log) : lastPub.log[i].stage = n].data

StageOutput(n) ==
    lastPub.log[CHOOSE i \in 1..Len(lastPub.log) : lastPub.log[i].stage = n - 1].data

\* r is v rounded half up to a whole number (both in tenths)
IsRoundedHalfUp(r, v) == r % 10 = 0 /\ r - 5 <= v /\ v < r + 5

ChangedByThreshold ==
    \A n \in 1..Len(cons.chain) :
        cons.chain[n].kind = "whenChangedBy" =>
            LET delta == cons.chain[n].param
            IN  /\ cons.chain[n].state =
                      (IF cons.lastOut[n] = NoForward THEN 0 ELSE cons.lastOut[n])
                /\ (lastPub.op = "pub" /\ StageRan(n)) =>
                      LET reference == lastPub.pre[n].state
                          v == StageInput(n)
                      IN  /\ StageForwarded(n) <=> Abs(v - reference) >= delta
                          /\ StageForwarded(n) =>
                                /\ StageOutput(n) = v
                                /\ cons.chain[n].state = v
                                /\ lastPub.preOut[n] # NoForward =>
                                      Abs(v - lastPub.preOut[n]) >= delta
                          /\ ~StageForwarded(n) => cons.chain[n].state = reference

\* whenChangedBy(1) alone: a first publish below 1 did not reach the handler,
\* the publish of 1.4 after it did and 1.4 is the reference
SmallStepThenForwarded ==
    /\ Len(cons.chain) = 1
    /\ cons.chain[1].kind = "whenChangedBy"
    /\ Len(cons.pubs) = 2
    /\ ~cons.pubs[1].forwarded
    /\ lastPub.op = "pub"
    /\ lastPub.data = 14
    /\ cons.pubs[2].forwarded
    /\ cons.chain[1].state = 14

OffDetachesHandler ==
    lastStep.op = "pub" =>
        \A i \in 1..Len(consumers.calls) :
            LET call == consumers.calls[i]
            IN  call.sub # 0 =>
                  <<consumers.subs[call.sub].consumer, call.handler>> \notin consumers.detached

\* C26: as long as off was not called, the values a handler has received
\* through a filter are the values it receives when the state of the filter
\* is touched by no other call of handle.
FilterStatePrivate ==
    ~consumers.offCalled =>
        \A n \in 1..Len(consumers.subs) :
            consumers.subs[n].filtered =>
                consumers.subs[n].recv = consumers.subs[n].soloRecv

(***************************************************************************)
(* Properties of the publisher (SpecPublisher).                            *)
(***************************************************************************)
IsPub(event) == event.ev = "pub"

\* the pub calls the bus received during the last call on the publisher
BusPubs == SelectSeq(publisher.last.log, IsPub)

\* C27: a publisher is inactive when constructed; publish calls pub of the
\* bus, once and with its topic and data, exactly when the publisher is
\* active and has no pacer or a pacer whose canPublish answers true; onUpdate
\* calls pub only when the publisher is active; between stopPublish and the
\* next startPublish neither publish nor onUpdate calls pub.
PublishOnlyWhenActive ==
    LET last == publisher.last
    IN  /\ last.op = "new" => ~publisher.obj.publishActive
        /\ last.op = "publish" =>
              /\ BusPubs # <<>> <=>
                    (last.pre.publishActive /\ (~last.pre.pacer \/ last.canPublish[last.topic]))
              /\ BusPubs # <<>> =>
                    /\ Len(BusPubs) = 1
                    /\ BusPubs[1].topic = last.topic
                    /\ BusPubs[1].data = last.data
        /\ last.op = "onUpdate" =>
              \A i \in 1..Len(BusPubs) :
                  /\ last.pre.publishActive
                  /\ ~last.pre.pacer \/ last.canPublish[BusPubs[i].topic]
        /\ (publisher.stopped /\ last.op \in {"publish", "onUpdate"}) => BusPubs = <<>>

\* a publisher with a pacer that was stopped and started again published
RestartedPublishReached ==
    /\ publisher.last.op = "publish"
    /\ publisher.last.pre.pacer
    /\ publisher.restarted
    /\ BusPubs # <<>>

(***************************************************************************)
(* Properties of the storage wire format (SpecWire).                       *)
(***************************************************************************)
\* the data whose text a storage message carries
SentData(msg) ==
    IF msg.newValue[2] = EMPTY_DATA THEN Undefined ELSE msg.newValue[2][2]

\* the pub calls made on the bus during the last step
LocalPubs == SelectSeq(hist.last.log, IsPub)

\* C28: a view that receives a storage message publishes locally, first,
\* the topic and the data that were passed to sendEvent.
WireRoundTrip ==
    (hist.last.kind = "recv" /\ hist.last.msg.newValue # Null) =>
        /\ LocalPubs # <<>>
        /\ LocalPubs[1].topic = MsgTopic(hist.last.msg)
        /\ LocalPubs[1].data = SentData(hist.last.msg)

(***************************************************************************)
(* Properties of Subject.apply (SpecApply).                                *)
(***************************************************************************)
\* the keys of the object passed to the last apply
PartialKeys == {lastSet.x[i].key : i \in 1..Len(lastSet.x)}

\* C30: apply(partial) invokes every subscriber once, in order, with the
\* object when some key of partial had another value in the object, and
\* invokes none when no key had; afterwards every key of partial has
\* partial's value in the object and the other fields are as they were.
ApplyNotifiesOnChange ==
    lastSet.op = "apply" =>
        LET pre     == lastSet.pre["O"]
            partial == lastSet.x
            differs == \E i \in 1..Len(partial) : partial[i].val # pre.value[partial[i].key]
        IN  /\ differs =>
                  InvokedOn(lastSet.log, "O") = ExpectedInvoked("O", pre.subs, objs["O"].value)
            /\ ~differs => lastSet.log = <<>>
            /\ \A i \in 1..Len(partial) : objs["O"].value[partial[i].key] = partial[i].val
            /\ \A f \in Fields \ PartialKeys : objs["O"].value[f] = pre.value[f]
            /\ objs["O"].subs = pre.subs

\* apply({p: v, q: w}) with p unchanged and q changed, on a subject with two
\* subscribers
SecondKeyChanged ==
    /\ lastSet.op = "apply"
    /\ Len(lastSet.x) = 2
    /\ lastSet.x[1].val = lastSet.pre["O"].value[lastSet.x[1].key]
    /\ lastSet.x[2].val # lastSet.pre["O"].value[lastSet.x[2].key]
    /\ Len(objs["O"].subs) = 2
    /\ Len(lastSet.log) = 2

(***************************************************************************)
(* Properties of Wait.awaitCondition (SpecWait, SpecWaitFair).             *)
(***************************************************************************)
Called == waiter.call # NotCalled

Settled == Called /\ waiter.call.promise # "pending"

\* C29 as stated: with a timeout greater than zero, a promise is resolved
\* only when an evaluation made before the deadline t0 + timeout returned
\* true; otherwise it is rejected.
ResolvedBeforeDeadlineOnly ==
    (Called /\ waiter.call.timeout > 0 /\ waiter.call.promise = "resolved") =>
        waiter.call.sawTrueEarly

\* what holds of the call at every moment
WaitSafe ==
    Called =>
        LET w == waiter.call
        IN  /\ w.timeout <= 0 => w.promise # "rejected"
            /\ w.promise = "rejected" =>
                  /\ w.reason = TimedOutMessage
                  /\ waiter.now - w.t0 >= w.timeout
                  /\ ~w.sawTrue
            /\ w.promise = "resolved" => w.sawTrue
            /\ w.promise = "pending" => (~w.sawTrue /\ (w.frame \/ w.timer))
            /\ w.promise # "pending" => (~w.frame /\ ~w.timer)
            /\ (waiter.last.op \in {"frame", "interval"} /\ w.timeout <= 0) => w.evaluated
            /\ (waiter.last.op \in {"call", "frame", "interval"} /\ w.promise = "rejected") =>
                  ~w.evaluated
            /\ (w.promise = "rejected" /\ w.interval > 0) => waiter.now - w.t0 > w.timeout
            /\ (waiter.last.op \in {"call", "frame", "interval"} /\ w.evaluated
                   /\ w.timeout > 0) =>
                  IF w.interval <= 0
                  THEN waiter.now - w.t0 < w.timeout
                  ELSE waiter.now - w.t0 <= w.timeout

\* C29 amended: with a timeout of zero or less the promise is never
\* rejected, the predicate is evaluated on every frame or interval while the
\* promise is pending, and the promise is resolved only by an evaluation that
\* returned true; a rejection carries the fixed message, happens only with a
\* timeout greater than zero, at a frame at or after t0 + timeout or at an
\* interval later than t0 + timeout, without an evaluation in that run and
\* only when no evaluation returned true (an interval that falls on
\* t0 + timeout still evaluates the predicate); a settled promise has no frame
\* requested and no timer running; and with a timeout greater than zero the
\* promise is eventually settled, that is rejected when no evaluation returns
\* true.
AwaitConditionSettles ==
    /\ []WaitSafe
    /\ (Called /\ waiter.call.timeout > 0) ~> Settled

\* an interval wait with a timeout was rejected after the predicate had
\* been evaluated and found false
RejectedAfterEvaluations ==
    /\ Called
    /\ waiter.call.interval > 0
    /\ waiter.call.promise = "rejected"
    /\ waiter.call.sawFalse

(***************************************************************************)
(* Unsubscribing.                                                          *)
(***************************************************************************)
RECURSIVE WithoutFirst(_, _)
\* the list without the first occurrence of e, the others in their order
WithoutFirst(list, e) ==
    IF list = <<>> THEN <<>>
    ELSE IF Head(list) = e THEN Tail(list)
    ELSE <<Head(list)>> \o WithoutFirst(Tail(list), e)

\* C31: off(topic, handler) removes only the first registration of handler
\* for the topic and keeps the order of the others; when handler is not
\* registered for the topic (list empty, list without it, or no list) the
\* handler lists of the bus are as they were before the call.
OffRemovesFirstOnly ==
    lastCall.op = "off" =>
        LET before == lastCall.pre.topicHandlersMap
            handlers == before[lastCall.topic]
        IN  /\ bus.wildcardHandlers = lastCall.pre.wildcardHandlers
            /\ \A t \in AllTopics \ {lastCall.topic} : bus.topicHandlersMap[t] = before[t]
            /\ bus.topicHandlersMap[lastCall.topic].defined = handlers.defined
            /\ bus.topicHandlersMap[lastCall.topic].list =
                  WithoutFirst(handlers.list, lastCall.h)
            /\ (\A i \in 1..Len(handlers.list) : handlers.list[i] # lastCall.h) =>
                  bus.topicHandlersMap = before

\* off of a handler registered twice, behind another handler
SecondRegistrationKept ==
    /\ lastCall.op = "off"
    /\ lastCall.pre.topicHandlersMap["x"].list = <<"H2", "H1", "H1">>
    /\ lastCall.h = "H1"
    /\ bus.topicHandlersMap["x"].list = <<"H2", "H1">>

(***************************************************************************)
(* ARINC 429 words.                                                        *)
(***************************************************************************)
\* the publishes before the most recent one forwarded nothing
NothingForwardedBefore ==
    \A i \in 1..(Len(cons.pubs) - 1) : ~cons.pubs[i].forwarded

SameFlags(a, b) ==
    /\ a.isNormalOperation = b.isNormalOperation
    /\ a.isNoComputedData = b.isNoComputedData
    /\ a.isFailureWarning = b.isFailureWarning

\* C32: a withArinc429Precision(n) stage forwards a word exactly when its
\* value rounded to n decimals differs from the rounded value of the word
\* forwarded last or one of its three status flags differs from that word's
\* (before any forward no flags are recorded, so the word is forwarded); the
\* word itself is passed on, and on each forward the rounded value and the
\* three flags are recorded.
ArincForwardsOnChange ==
    (HasStage("withArinc429Precision") /\ lastPub.op = "pub") =>
        LET word == lastPub.data
            n == lastPub.pre[1].param
            forwarded == Forwarded(lastPub.log)
        IN  /\ forwarded <=>
                  \/ NothingForwardedBefore
                  \/ ~NothingForwardedBefore /\
                       LET last == lastPub.preOut[1]
                       IN  \/ RoundAtPrecision(word.value, n) # RoundAtPrecision(last.value, n)
                           \/ ~SameFlags(word, last)
            /\ forwarded => /\ cons.lastOut[1] = word
                            /\ cons.chain[1].state =
                                 [lastValue |-> RoundAtPrecision(word.value, n),
                                  hasNormalOps |-> FlagValue(word.isNormalOperation),
                                  isNoComputedData |-> FlagValue(word.isNoComputedData),
                                  isFailureWarning |-> FlagValue(word.isFailureWarning)]
            /\ ~forwarded => /\ cons.chain = lastPub.pre
                             /\ cons.lastOut = lastPub.preOut

\* a word forwarded for a changed flag alone: same rounded value as the word
\* forwarded last, other raw value
FlagChangeForwarded ==
    /\ HasStage("withArinc429Precision")
    /\ lastPub.op = "pub"
    /\ ~NothingForwardedBefore
    /\ Forwarded(lastPub.log)
    /\ lastPub.pre[1].param = 0
    /\ lastPub.preOut[1].value = 6
    /\ lastPub.data.value = 14
    /\ ~SameFlags(lastPub.data, lastPub.preOut[1])

(***************************************************************************)
(* The IRS.                                                                *)
(***************************************************************************)
\* the countdown of a latitude below 78.2 degrees (in tenths of a degree),
\* in seconds
CountdownAt(latitude) == IF latitude < 702 THEN 600 ELSE 1020

\* C33: update only ever writes 0, 1 or 2 to the IRS state; it writes 2
\* only when the state is 1 and the countdown started on entering state 1
\* (600 s below 70.2 degrees, 1020 s from 70.2 to below 78.2 degrees, more
\* above) has been used up by the elapsed time of powered updates; an
\* update without electricity changes neither the state nor the countdown.
OnlyAlignedAfterCountdown ==
    irs.last.op = "update" =>
        LET obj == irs.obj
            pre == irs.last.pre
            latitude == Abs(irs.last.plane)
            writes == obj.writes
        IN  /\ \A i \in 1..Len(writes) : writes[i] \in {0, 1, 2}
            /\ obj.state \in {0, 1, 2}
            /\ obj.state # pre.state => writes # <<>> /\ writes[Len(writes)] = obj.state
            /\ obj.entered > 0 =>
                  /\ irs.started = obj.entered
                  /\ IF latitude < 782
                     THEN obj.entered = CountdownAt(latitude)
                     ELSE obj.entered > 1020
            /\ (\E i \in 1..Len(writes) : writes[i] = 2) =>
                  /\ writes[Len(writes)] = 2
                  /\ obj.state = 2
                  /\ pre.state = 1 \/ (Len(writes) > 1 /\ writes[Len(writes) - 1] = 1)
                  /\ irs.started > 0
                  /\ irs.consumed >= irs.started * 1000
                  /\ irs.last.electricityIsAvail
            /\ ~irs.last.electricityIsAvail =>
                  /\ obj.state = pre.state
                  /\ obj.irsTimer = pre.irsTimer
                  /\ obj.timeLeft = pre.timeLeft
                  /\ writes = <<>>

\* aligned by a countdown of 1020 s that three updates used up
AlignedAfterLongCountdown ==
    /\ irs.last.op = "update"
    /\ irs.obj.state = 2
    /\ irs.last.pre.state = 1
    /\ irs.started = 1020
    /\ irs.last.pre.irsTimer = 220

\* C39: with electricity available, the three knobs on and update called
\* with time advancing, the IRS state eventually becomes 2, whatever the
\* state variable held when init() set the timer to -1.
AlignmentCompletes == <>(irs.obj.state = 2)

(***************************************************************************)
(* Publishing from inside a dispatch.                                      *)
(***************************************************************************)
\* the value h was invoked with last in the call
LastInvokedWith(log, h) ==
    LET is == {i \in 1..Len(log) : log[i].ev = "direct" /\ log[i].h = h}
    IN  log[CHOOSE i \in is : \A j \in is : j <= i].data

\* C34: after the outermost pub call on a topic returns (a cached pub), the
\* value every handler registered for the topic was invoked with last is the
\* topic's cached value, also when a handler publishes on the topic from
\* inside the dispatch.
HandlersEndOnCachedValue ==
    (lastCall.op = "pub" /\ lastCall.isCached) =>
        LET list == bus.topicHandlersMap[lastCall.topic].list
        IN  \A i \in 1..Len(list) :
              LastInvokedWith(lastCall.log, list[i]) =
                  CacheGet(bus.eventCache, lastCall.topic).data

(***************************************************************************)
(* The dedup guard with three instances.                                   *)
(***************************************************************************)
\* C35: on the channel relay the dedup guard never discards a message that
\* the receiver has not already applied: every message of another instance
\* is applied when it is delivered, unless the same message was applied by
\* the delivery just before it (same-numbered messages of two senders and
\* the resync_request of a newly constructed instance included).
NoFreshMessageDiscarded ==
    (IsCoherentDelivery /\ hist.last.msg.busId # views[hist.last.view].busId
        /\ ~hist.last.again) =>
        hist.last.log # <<>>

(***************************************************************************)
(* Who answers a resync_request.                                           *)
(***************************************************************************)
\* view v holds topic "x" in its cache with the sync flag set, so that its
\* resyncEvents sends it
AnswersForX(v) == XHas(v) /\ CacheGet(views[v].eventCache, "x").synced

\* C36: at every moment at which no synchronization message is in flight, a
\* topic that was published (always with sync=true and isCached=true) is held
\* with the sync flag set in the cache of at least one bus instance, also
\* after two instances published it and each applied the other's message.
ResyncResponsibilityKept ==
    (Quiescent /\ hist.published # {}) => \E v \in Alive(views) : AnswersForX(v)

(***************************************************************************)
(* The frequency cap, counted.                                             *)
(***************************************************************************)
RECURSIVE ForwardedCount(_)
\* the number of publishes that reached the handler
ForwardedCount(pubs) ==
    IF pubs = <<>> THEN 0
    ELSE (IF Head(pubs).forwarded THEN 1 ELSE 0) + ForwardedCount(Tail(pubs))

\* C37: an atFrequency(hz) stage forwards at most one value per period: at
\* every time t the number of values it has forwarded since its creation
\* time t0 is at most floor((t - t0) / period), also when several publishes
\* arrive in the same millisecond and when a publish arrives exactly one
\* period after previousTime.
OneForwardPerPeriod ==
    (Len(cons.chain) = 1 /\ HasStage("atFrequency")) =>
        ForwardedCount(cons.pubs) <=
            (cons.now - cons.created) \div (1000 \div cons.chain[1].param)

(***************************************************************************)
(* The first value.                                                        *)
(***************************************************************************)
\* C38: for a consumer filtered by withPrecision, whenChangedBy or
\* whenChanged, the first value delivered on the topic after handle() is
\* forwarded to the terminal handler, whatever the value is.
FirstValueForwarded ==
    (Len(cons.chain) = 1 /\ cons.pubs # <<>>
        /\ cons.chain[1].kind \in {"withPrecision", "whenChangedBy", "whenChanged"}) =>
        cons.pubs[1].forwarded

(***************************************************************************)
(* Uncached publishes.                                                     *)
(***************************************************************************)
\* the topic of a message the bus handed to its adapter
SentTopic(msg) == IF bus.useStorageSync THEN msg.newValue[1][2] ELSE msg.topic

\* C40: a pub call with isCached=false leaves the event cache as it was and
\* invokes the direct and the wildcard handlers as every pub call does; a
\* topic that was only ever published uncached has no cache entry, is not
\* replayed to a handler that subscribes later and is not re-sent by
\* resyncEvents.
UncachedPubLeavesNoTrace ==
    /\ (lastCall.op = "pub" /\ ~lastCall.isCached) =>
          /\ bus.eventCache = lastCall.pre.eventCache
          /\ SelectSeq(lastCall.log, IsDispatch) =
                ExpectedPubLog(lastCall.pre, lastCall.topic, lastCall.data, lastCall.sync)
    /\ \A topic \in Topics :
          <<topic, TRUE>> \notin hist =>
              /\ ~CacheHas(bus.eventCache, topic)
              /\ (lastCall.op = "on" /\ lastCall.topic = topic) => lastCall.log = <<>>
              /\ lastCall.op = "recv" =>
                    /\ \A i \in 1..Len(lastCall.log) :
                          ~(lastCall.log[i].ev = "resync" /\ lastCall.log[i].topic = topic)
                    /\ \A i \in 1..Len(lastCall.out) :
                          SentTopic(lastCall.out[i]) # topic

\* a resync_request answered with "x" while "y", published only uncached
\* and subscribed to, is left out
UncachedTopicNotResent ==
    /\ lastCall.op = "recv"
    /\ <<"y", FALSE>> \in hist
    /\ <<"y", TRUE>> \notin hist
    /\ bus.topicHandlersMap["y"].list # <<>>
    /\ \E i \in 1..Len(lastCall.out) : SentTopic(lastCall.out[i]) = "x"

====
